---- MODULE Spec2Model ----
(***************************************************************************)
(* Model of ComboInjector (src/ComboInjector.py): the token vocabulary,    *)
(* the descriptor compiler, the move and category samplers and the          *)
(* per-agent queue scheduler.                                              *)
(*                                                                         *)
(* Probabilities are exact decimals written in thousandths (0.15 = 150).   *)
(* A value of np.random.rand() is r/RollDen for r in 0..RollDen-1.         *)
(* Token strings are TLA+ strings built by concatenation, as in the code.  *)
(* A descriptor is written already split at '/' and '_': a sequence of      *)
(* segments, each a sequence of parts; the frame and repeat numbers are     *)
(* written as numbers (the code applies int() to them).                    *)
(***************************************************************************)
EXTENDS Integers, Sequences, FiniteSets, TLC

VARIABLES frame_skip, environment_name, base_actions, action_idx_lookup,
          input_lookup, agent_state, pc, call, result, trace, fn_in, fn_out

vars == <<frame_skip, environment_name, base_actions, action_idx_lookup,
          input_lookup, agent_state, pc, call, result, trace, fn_in, fn_out>>

(***************************************************************************)
(* Bounds of the model.                                                    *)
(***************************************************************************)
\* rand() takes the values r/RollDen, r in 0..RollDen-1
RollDen == 40
\* randint(low, high) yields low .. low+MaxDraw-1 and high-1
MaxDraw == 2
\* longest list handed to string_to_idx in the encoder specification
MaxStrLen == 3

(***************************************************************************)
(* Defaults of the constructor and of the samplers.                        *)
(***************************************************************************)
DefaultFrameSkip == 4
DefaultProbDash == 150
DefaultRepeatMin == 12
DefaultRepeatMax == 64
DefaultProbSuperJump == 150

DefaultProbs ==
  [prob_jump |-> 40, prob_basic |-> 210, prob_combo |-> 350,
   prob_cancel |-> 200, prob_movement |-> 300]

(***************************************************************************)
(* The random source.                                                      *)
(***************************************************************************)
Rolls == 0 .. (RollDen - 1)

\* roll < p, with roll = r/RollDen and p in thousandths
RollLess(r, p) == r * 1000 < p * RollDen

\* roll <= p
RollLeq(r, p) == r * 1000 <= p * RollDen

\* np.random.randint(low, high): empty when low >= high (ValueError)
RandInt(low, high) ==
  {n \in low .. (high - 1) : n < low + MaxDraw \/ n = high - 1}

\* np.random.choice(list)
Choice(list) == {list[i] : i \in DOMAIN list}

(***************************************************************************)
(* Token space.                                                            *)
(***************************************************************************)
base_movement_names ==
  << [k |-> "",   v |-> <<0, 0>>], [k |-> "l",  v |-> <<1, 0>>],
     [k |-> "ul", v |-> <<2, 0>>], [k |-> "u",  v |-> <<3, 0>>],
     [k |-> "ur", v |-> <<4, 0>>], [k |-> "r",  v |-> <<5, 0>>],
     [k |-> "dr", v |-> <<6, 0>>], [k |-> "d",  v |-> <<7, 0>>],
     [k |-> "dl", v |-> <<8, 0>>] >>

base_attack_names ==
  << [k |-> "",    v |-> <<0, 0>>], [k |-> "lp",  v |-> <<0, 1>>],
     [k |-> "mp",  v |-> <<0, 2>>], [k |-> "hp",  v |-> <<0, 3>>],
     [k |-> "lk",  v |-> <<0, 4>>], [k |-> "mk",  v |-> <<0, 5>>],
     [k |-> "hk",  v |-> <<0, 6>>], [k |-> "lpk", v |-> <<0, 7>>],
     [k |-> "mpk", v |-> <<0, 8>>], [k |-> "hpk", v |-> <<0, 9>>] >>

\* f'{m}+{atk}'
Token(m, atk) == m \o "+" \o atk

\* dict[key] of an ordered dict written as a sequence of (k, v) entries
DictGet(d, key) == (CHOOSE e \in {d[i] : i \in DOMAIN d} : e.k = key).v

\* the nested loops that flatten movement x attack into _base_actions
MakeBaseActions ==
  LET nm == Len(base_movement_names)
      na == Len(base_attack_names)
  IN  [n \in 1 .. (nm * na) |->
         Token(base_movement_names[((n - 1) \div na) + 1].k,
               base_attack_names[((n - 1) % na) + 1].k)]

\* {combo_str: i for i, combo_str in enumerate(_base_actions)}: the last
\* occurrence of a string wins; indices are 0-based
MakeActionIdxLookup(ba) ==
  [s \in {ba[i] : i \in DOMAIN ba} |->
     (CHOOSE i \in DOMAIN ba :
        ba[i] = s /\ \A j \in DOMAIN ba : ba[j] = s => j <= i) - 1]

\* combo_str.split('+') unpacked into (move_part, attack_part)
SplitPlus(s) ==
  CHOOSE p \in {<<base_movement_names[i].k, base_attack_names[j].k>> :
                  i \in DOMAIN base_movement_names,
                  j \in DOMAIN base_attack_names} :
    Token(p[1], p[2]) = s

\* mutant: the attack array is added to the wrong field
MakeInputLookup_FieldSlip(lookup) ==
  [idx \in {lookup[s] : s \in DOMAIN lookup} |->
     LET s  == CHOOSE t \in DOMAIN lookup : lookup[t] = idx
         p  == SplitPlus(s)
         ma == DictGet(base_movement_names, p[1])
         aa == DictGet(base_attack_names, p[2])
     IN  <<ma[1] + aa[1], ma[2] + aa[1]>>]

\* input_lookup[idx] = (movement_arr + attack_arr).tolist()
MakeInputLookup(lookup) ==
  [idx \in {lookup[s] : s \in DOMAIN lookup} |->
     LET s  == CHOOSE t \in DOMAIN lookup : lookup[t] = idx
         p  == SplitPlus(s)
         ma == DictGet(base_movement_names, p[1])
         aa == DictGet(base_attack_names, p[2])
     IN  <<ma[1] + aa[1], ma[2] + aa[2]>>]

\* action_space_size()
action_space_size == Len(base_actions)

move_pattern_names ==
  [rqc |-> <<"d", "dr", "r">>,
   lqc |-> <<"d", "dl", "l">>,
   rhc |-> <<"l", "dl", "d", "dr", "r">>,
   lhc |-> <<"r", "dr", "d", "dl", "l">>,
   rdp |-> <<"r", "d", "dr">>,
   ldp |-> <<"l", "d", "dl">>,
   rfc |-> <<"r", "dr", "d", "dl", "l", "ul", "u", "ur">>,
   lfc |-> <<"l", "dl", "d", "dr", "r", "ur", "u", "ul">>,
   sr  |-> <<"r", "", "r">>,
   sl  |-> <<"l", "", "l">>,
   sur |-> <<"d", "ur">>,
   su  |-> <<"d", "u">>,
   sul |-> <<"d", "ul">>]

(***************************************************************************)
(* Descriptor compiler.  Every operator yields the set of its possible     *)
(* outcomes, one per resolution of the random draws; an outcome is         *)
(* [err |-> "" or the exception raised, val |-> the list returned].        *)
(***************************************************************************)
Ok(v) == [err |-> "", val |-> v]

Raise(e) == [err |-> e, val |-> <<>>]

\* [x] * n
Repeat(x, n) == [i \in 1 .. n |-> x]

\* seq * n
RECURSIVE Times(_, _)
Times(seq, n) == IF n <= 0 THEN <<>> ELSE seq \o Times(seq, n - 1)

\* mutant: the generic 'p' and 'k' are kept as written
ResolveAttack_Literal(attack_string) == {attack_string}

\* the generic 'p' / 'k' expansion shared by the three primitives
ResolveAttack(attack_string) ==
  IF attack_string = "p" THEN Choice(<<"lp", "mp", "hp">>)
  ELSE IF attack_string = "k" THEN Choice(<<"lk", "mk", "hk">>)
  ELSE {attack_string}

\* mutant: each half of a doubled motion picks its own mirror
MoveSeqs_Mixed(move_string) ==
  LET Twice(a, b) == {move_pattern_names[c] \o move_pattern_names[d] :
                        c \in Choice(<<a, b>>), d \in Choice(<<a, b>>)}
  IN  CASE move_string = "qc"  ->
             {move_pattern_names[c] : c \in Choice(<<"rqc", "lqc">>)}
        [] move_string = "2qc" -> Twice("rqc", "lqc")
        [] move_string = "hc"  ->
             {move_pattern_names[c] : c \in Choice(<<"rhc", "lhc">>)}
        [] move_string = "fc"  ->
             {move_pattern_names[c] : c \in Choice(<<"rfc", "lfc">>)}
        [] move_string = "2fc" -> Twice("rfc", "lfc")
        [] move_string = "dp"  ->
             {move_pattern_names[c] : c \in Choice(<<"rdp", "ldp">>)}
        [] move_string = "2dp" -> Twice("rdp", "ldp")
        [] move_string = "lr"  -> {<<c>> : c \in Choice(<<"l", "r">>)}
        [] OTHER -> {<<move_string>>}

\* the movement list of _combine_actions
MoveSeqs(move_string) ==
  CASE move_string = "qc"  ->
         {move_pattern_names[c] : c \in Choice(<<"rqc", "lqc">>)}
    [] move_string = "2qc" ->
         {Times(move_pattern_names[c], 2) : c \in Choice(<<"rqc", "lqc">>)}
    [] move_string = "hc"  ->
         {move_pattern_names[c] : c \in Choice(<<"rhc", "lhc">>)}
    [] move_string = "fc"  ->
         {move_pattern_names[c] : c \in Choice(<<"rfc", "lfc">>)}
    [] move_string = "2fc" ->
         {Times(move_pattern_names[c], 2) : c \in Choice(<<"rfc", "lfc">>)}
    [] move_string = "dp"  ->
         {move_pattern_names[c] : c \in Choice(<<"rdp", "ldp">>)}
    [] move_string = "2dp" ->
         {Times(move_pattern_names[c], 2) : c \in Choice(<<"rdp", "ldp">>)}
    [] move_string = "lr"  -> {<<c>> : c \in Choice(<<"l", "r">>)}
    [] OTHER -> {<<move_string>>}

\* [f"{m}+{atk}" for m, atk in zip(m_seq, a_seq)]
ZipTokens(m_seq, a_seq) ==
  [i \in 1 .. (IF Len(m_seq) < Len(a_seq) THEN Len(m_seq) ELSE Len(a_seq))
     |-> Token(m_seq[i], a_seq[i])]

\* mutant: the attack is aligned with the first move instead of the last
combine_actions_AttackFirst(move_string, attack_string) ==
  {Ok(ZipTokens(m_seq, <<a>> \o Repeat("", Len(m_seq) - 1))) :
     m_seq \in MoveSeqs(move_string), a \in ResolveAttack(attack_string)}

combine_actions(move_string, attack_string) ==
  {Ok(ZipTokens(m_seq, Repeat("", Len(m_seq) - 1) \o <<a>>)) :
     m_seq \in MoveSeqs(move_string), a \in ResolveAttack(attack_string)}

\* the m_seq / a_seq construction of one hold branch
HoldTokens(dir_held, num_steps, release, release_dir) ==
  LET has   == IF release = "" THEN 0 ELSE 1
      m_seq == Repeat(dir_held, num_steps) \o Repeat(release_dir, has)
      a_seq == Repeat("", Len(m_seq) - has) \o Repeat(release, has)
  IN  ZipTokens(m_seq, a_seq)

\* mutant: the test is made on the first letter
EndsWithR_StartsWith(dir_held) == dir_held \in {"r"}

\* dir_held.endswith('r')
EndsWithR(dir_held) == dir_held \in {"r", "dr", "ur"}

hold_direction(fs, direction, min_f, max_f, release_in) ==
  LET steps == RandInt(min_f \div fs, (max_f + 1) \div fs)
  IN  IF steps = {} THEN {Raise("ValueError")}
      ELSE IF direction = "d" THEN
        {Ok(HoldTokens(dir_held, n, release, "u")) :
           dir_held \in Choice(<<"d", "dl", "dr">>), n \in steps,
           release \in ResolveAttack(release_in)}
      ELSE IF direction = "lr" THEN
        {Ok(HoldTokens(dir_held, n, release,
                       IF EndsWithR(dir_held) THEN "l" ELSE "r")) :
           dir_held \in Choice(<<"l", "dl", "dr", "r">>), n \in steps,
           release \in ResolveAttack(release_in)}
      ELSE {Ok(ZipTokens(<<direction>>, <<"">>))}

\* mutant: the filler separates the attacks instead of following each
repeat_attack_Join(attack_in, min_r, max_r, tap) ==
  LET reps == RandInt(min_r, max_r + 1)
  IN  IF reps = {} THEN {Raise("ValueError")}
      ELSE {Ok(LET seq == Times(<<Token("", a)>>
                                  \o Repeat("+", IF tap = "" THEN 0 ELSE 1), n)
               IN  IF tap = "" \/ n = 0 THEN seq
                   ELSE SubSeq(seq, 1, Len(seq) - 1)) :
              a \in ResolveAttack(attack_in), n \in reps}

repeat_attack(attack_in, min_r, max_r, tap) ==
  LET reps == RandInt(min_r, max_r + 1)
  IN  IF reps = {} THEN {Raise("ValueError")}
      ELSE {Ok(Times(<<Token("", a)>> \o Repeat("+", IF tap = "" THEN 0 ELSE 1),
                     n)) :
              a \in ResolveAttack(attack_in), n \in reps}

\* one '/'-separated segment of a descriptor
DecodeSegment(fs, parts) ==
  CASE parts[1] = "comb" -> combine_actions(parts[2], parts[3])
    [] parts[1] = "hold" ->
         IF Len(parts) # 5 THEN {Raise("ValueError")}
         ELSE hold_direction(fs, parts[2], parts[3], parts[4], parts[5])
    [] parts[1] = "rep" ->
         IF Len(parts) # 5 THEN {Raise("ValueError")}
         ELSE repeat_attack(parts[2], parts[3], parts[4], parts[5])
    [] parts[1] = "raw" -> {Ok(SubSeq(parts, 2, Len(parts)))}
    [] OTHER -> {Ok(<<>>)}

\* mutant: each segment's tokens are put in front of those collected
RECURSIVE decode_action_string_Prepend(_, _)
decode_action_string_Prepend(fs, action_string) ==
  IF action_string = <<>> THEN {Ok(<<>>)}
  ELSE UNION {
         IF h.err # "" THEN {h}
         ELSE {IF t.err # "" THEN t ELSE Ok(t.val \o h.val) :
                 t \in decode_action_string_Prepend(fs, Tail(action_string))} :
         h \in DecodeSegment(fs, Head(action_string))}

\* the segments are compiled left to right; an exception ends the loop
RECURSIVE decode_action_string(_, _)
decode_action_string(fs, action_string) ==
  IF action_string = <<>> THEN {Ok(<<>>)}
  ELSE UNION {
         IF h.err # "" THEN {h}
         ELSE {IF t.err # "" THEN t ELSE Ok(h.val \o t.val) :
                 t \in decode_action_string(fs, Tail(action_string))} :
         h \in DecodeSegment(fs, Head(action_string))}

(***************************************************************************)
(* The roster: self.characters['sfiii'].  A moveset is an ordered dict     *)
(* move name -> parameters, written as a sequence of (k, v) entries.       *)
(***************************************************************************)
\* characters['sfiii']['Alex']
Moves_Alex ==
  <<
     [k |-> "power_bomb", v |-> [prob |-> 150, combo_str |-> <<<<"comb", "hc", "p">>>>]],
     [k |-> "spiral_ddt", v |-> [prob |-> 150, combo_str |-> <<<<"comb", "hc", "k">>>>]],
     [k |-> "flash_chop", v |-> [prob |-> 150, combo_str |-> <<<<"comb", "qc", "p">>>>]],
     [k |-> "air_knee_smash", v |-> [prob |-> 150, combo_str |-> <<<<"comb", "dp", "k">>>>]],
     [k |-> "air_stampede", v |-> [prob |-> 150, combo_str |-> <<<<"hold", "d", 16, 64, "k">>>>]],
     [k |-> "slash_elbow", v |-> [prob |-> 150, combo_str |-> <<<<"hold", "lr", 16, 64, "k">>>>]],
     [k |-> "super_art", v |-> [prob |-> 100,
        combo_str_1 |-> <<<<"comb", "fc", "mp">>>>,
        combo_str_2 |-> <<<<"comb", "2qc", "mp">>>>,
        combo_str_3 |-> <<<<"comb", "2qc", "mp">>>>]] >>

\* characters['sfiii']['Twelve']
Moves_Twelve ==
  <<
     [k |-> "ndl", v |-> [prob |-> 300, combo_str |-> <<<<"comb", "qc", "p">>>>]],
     [k |-> "axe", v |-> [prob |-> 300, combo_str |-> <<<<"comb", "qc", "p">>, <<"rep", "p", 3, 12, "t">>>>]],
     [k |-> "dra", v |-> [prob |-> 300, combo_str |-> <<<<"comb", "qc", "k">>>>]],
     [k |-> "super_art", v |-> [prob |-> 100,
        combo_str_1 |-> <<<<"comb", "2qc", "mp">>>>,
        combo_str_2 |-> <<<<"comb", "2qc", "mk">>>>,
        combo_str_3 |-> <<<<"comb", "2qc", "mp">>>>]] >>

\* characters['sfiii']['Hugo']
Moves_Hugo ==
  <<
     [k |-> "shootdown_backbreaker", v |-> [prob |-> 150, combo_str |-> <<<<"comb", "dp", "k">>>>]],
     [k |-> "ultra_throw", v |-> [prob |-> 150, combo_str |-> <<<<"comb", "hc", "k">>>>]],
     [k |-> "moonsault_press", v |-> [prob |-> 150, combo_str |-> <<<<"comb", "fc", "p">>>>]],
     [k |-> "meat_squasher", v |-> [prob |-> 150, combo_str |-> <<<<"comb", "fc", "k">>>>]],
     [k |-> "giant_palm_bomber", v |-> [prob |-> 150, combo_str |-> <<<<"comb", "qc", "p">>>>]],
     [k |-> "monster_lariat", v |-> [prob |-> 150, combo_str |-> <<<<"comb", "qc", "k">>>>]],
     [k |-> "super_art", v |-> [prob |-> 100,
        combo_str_1 |-> <<<<"comb", "2fc", "mp">>>>,
        combo_str_2 |-> <<<<"comb", "2qc", "mk">>>>,
        combo_str_3 |-> <<<<"comb", "2qc", "mp">>, <<"rep", "mp", 0, 8, "">>>>]] >>

\* characters['sfiii']['Sean']
Moves_Sean ==
  <<
     [k |-> "zenten", v |-> [prob |-> 180, combo_str |-> <<<<"comb", "qc", "p">>>>]],
     [k |-> "sean_tackle", v |-> [prob |-> 180, combo_str |-> <<<<"comb", "hc", "p">>, <<"rep", "p", 0, 8, "">>>>]],
     [k |-> "dragon_smash", v |-> [prob |-> 180, combo_str |-> <<<<"comb", "dp", "p">>>>]],
     [k |-> "tornado_ryuubi_kyaku", v |-> [prob |-> 360, combo_str |-> <<<<"comb", "qc", "k">>>>]],
     [k |-> "super_art", v |-> [prob |-> 100,
        combo_str_1 |-> <<<<"comb", "2qc", "mp">>>>,
        combo_str_2 |-> <<<<"comb", "2qc", "mp">>, <<"rep", "mp", 0, 12, "t">>>>,
        combo_str_3 |-> <<<<"comb", "2qc", "mp">>>>]] >>

\* characters['sfiii']['Makoto']
Moves_Makoto ==
  <<
     [k |-> "karakusa", v |-> [prob |-> 180, combo_str |-> <<<<"comb", "hc", "k">>>>]],
     [k |-> "hayate_oroshi", v |-> [prob |-> 360, combo_str |-> <<<<"comb", "qc", "p">>, <<"rep", "p", 0, 8, "">>>>]],
     [k |-> "fukiage", v |-> [prob |-> 180, combo_str |-> <<<<"comb", "dp", "p">>>>]],
     [k |-> "tsurugi", v |-> [prob |-> 180, combo_str |-> <<<<"comb", "qc", "k">>>>]],
     [k |-> "super_art", v |-> [prob |-> 100,
        combo_str_1 |-> <<<<"comb", "2qc", "mp">>>>,
        combo_str_2 |-> <<<<"comb", "2qc", "mk">>>>,
        combo_str_3 |-> <<<<"comb", "2qc", "mp">>>>]] >>

\* characters['sfiii']['Elena']
Moves_Elena ==
  <<
     [k |-> "rhino_horn", v |-> [prob |-> 180, combo_str |-> <<<<"comb", "hc", "k">>>>]],
     [k |-> "mallet_smash", v |-> [prob |-> 180, combo_str |-> <<<<"comb", "hc", "p">>>>]],
     [k |-> "spin_scythe", v |-> [prob |-> 180, combo_str |-> <<<<"comb", "qc", "k">>>>]],
     [k |-> "scratch_wheel_lynx_tail", v |-> [prob |-> 360, combo_str |-> <<<<"comb", "dp", "k">>>>]],
     [k |-> "super_art", v |-> [prob |-> 100,
        combo_str_1 |-> <<<<"comb", "2qc", "mk">>>>,
        combo_str_2 |-> <<<<"comb", "2qc", "mk">>>>,
        combo_str_3 |-> <<<<"comb", "2qc", "mp">>>>]] >>

\* characters['sfiii']['Ibuki']
Moves_Ibuki ==
  <<
     [k |-> "raida", v |-> [prob |-> 180, combo_str |-> <<<<"comb", "hc", "p">>>>]],
     [k |-> "kasumi_gake_tsumuji", v |-> [prob |-> 180, combo_str |-> <<<<"comb", "qc", "k">>>>]],
     [k |-> "tsuji_goe", v |-> [prob |-> 180, combo_str |-> <<<<"comb", "dp", "p">>>>]],
     [k |-> "kunai_kubi_ori", v |-> [prob |-> 180, combo_str |-> <<<<"comb", "qc", "p">>>>]],
     [k |-> "kazekiri_hien", v |-> [prob |-> 180, combo_str |-> <<<<"comb", "dp", "k">>>>]],
     [k |-> "super_art", v |-> [prob |-> 100,
        combo_str_1 |-> <<<<"comb", "2qc", "mp">>, <<"rep", "mp", 0, 16, "t">>>>,
        combo_str_2 |-> <<<<"comb", "2qc", "mp">>>>,
        combo_str_3 |-> <<<<"comb", "2qc", "mp">>>>]] >>

\* characters['sfiii']['Chun-Li']
Moves_ChunLi ==
  <<
     [k |-> "kikoken", v |-> [prob |-> 180, combo_str |-> <<<<"comb", "hc", "p">>>>]],
     [k |-> "hazanshu", v |-> [prob |-> 180, combo_str |-> <<<<"comb", "hc", "k">>>>]],
     [k |-> "spinning_bird_kick", v |-> [prob |-> 180, combo_str |-> <<<<"hold", "d", 16, 64, "k">>>>]],
     [k |-> "hyakuretsu_kyaku", v |-> [prob |-> 180, combo_str |-> <<<<"rep", "k", 3, 16, "t">>>>]],
     [k |-> "super_art", v |-> [prob |-> 100,
        combo_str_1 |-> <<<<"comb", "2qc", "mp">>>>,
        combo_str_2 |-> <<<<"comb", "2qc", "mk">>>>,
        combo_str_3 |-> <<<<"comb", "2qc", "mk">>>>]] >>

\* characters['sfiii']['Dudley']
Moves_Dudley ==
  <<
     [k |-> "ducking_straight_short_swing_blow", v |-> [prob |-> 300, combo_str |-> <<<<"comb", "hc", "k">>, <<"rep", "p", 0, 4, "t">>>>]],
     [k |-> "ducking_upper_short_swing_blow", v |-> [prob |-> 300, combo_str |-> <<<<"comb", "hc", "k">>, <<"rep", "k", 0, 4, "t">>>>]],
     [k |-> "machine_gun_blow_cross_counter", v |-> [prob |-> 300, combo_str |-> <<<<"comb", "hc", "p">>>>]],
     [k |-> "jet_upper", v |-> [prob |-> 180, combo_str |-> <<<<"comb", "dp", "p">>>>]],
     [k |-> "super_art", v |-> [prob |-> 100,
        combo_str_1 |-> <<<<"comb", "2qc", "mp">>>>,
        combo_str_2 |-> <<<<"comb", "2qc", "mp">>, <<"rep", "mp", 3, 12, "t">>>>,
        combo_str_3 |-> <<<<"comb", "2qc", "mp">>>>]] >>

\* characters['sfiii']['Necro']
Moves_Necro ==
  <<
     [k |-> "snake_fang_rising_cobra", v |-> [prob |-> 180, combo_str |-> <<<<"comb", "hc", "k">>>>]],
     [k |-> "denji_blast", v |-> [prob |-> 180, combo_str |-> <<<<"comb", "dp", "p">>, <<"rep", "p", 0, 12, "t">>>>]],
     [k |-> "flying_viper", v |-> [prob |-> 180, combo_str |-> <<<<"comb", "qc", "p">>>>]],
     [k |-> "rising_kobra", v |-> [prob |-> 180, combo_str |-> <<<<"comb", "qc", "k">>>>]],
     [k |-> "tornado_hook", v |-> [prob |-> 180, combo_str |-> <<<<"comb", "hc", "p">>>>]],
     [k |-> "super_art", v |-> [prob |-> 100,
        combo_str_1 |-> <<<<"comb", "2qc", "mp">>, <<"rep", "mp", 0, 16, "t">>>>,
        combo_str_2 |-> <<<<"comb", "2qc", "mp">>>>,
        combo_str_3 |-> <<<<"comb", "2qc", "mp">>>>]] >>

\* characters['sfiii']['Q']
Moves_Q ==
  <<
     [k |-> "capture_deadly_blow", v |-> [prob |-> 225, combo_str |-> <<<<"comb", "hc", "k">>>>]],
     [k |-> "dashing_head", v |-> [prob |-> 225, combo_str |-> <<<<"hold", "lr", 16, 64, "p">>, <<"rep", "p", 0, 8, "">>>>]],
     [k |-> "dashing_leg", v |-> [prob |-> 225, combo_str |-> <<<<"hold", "lr", 16, 64, "k">>>>]],
     [k |-> "high_speed_barage", v |-> [prob |-> 225, combo_str |-> <<<<"comb", "qc", "p">>>>]],
     [k |-> "super_art", v |-> [prob |-> 100,
        combo_str_1 |-> <<<<"comb", "2qc", "mp">>>>,
        combo_str_2 |-> <<<<"comb", "2qc", "mp">>>>,
        combo_str_3 |-> <<<<"comb", "2qc", "mp">>>>]] >>

\* characters['sfiii']['Oro']
Moves_Oro ==
  <<
     [k |-> "niu_riki", v |-> [prob |-> 225, combo_str |-> <<<<"comb", "hc", "p">>>>]],
     [k |-> "nichirin_shou", v |-> [prob |-> 225, combo_str |-> <<<<"hold", "lr", 16, 64, "p">>>>]],
     [k |-> "oni_yanma", v |-> [prob |-> 225, combo_str |-> <<<<"hold", "d", 16, 64, "p">>>>]],
     [k |-> "jinchuu_watari_hitobashira_nobori", v |-> [prob |-> 225, combo_str |-> <<<<"comb", "qc", "k">>>>]],
     [k |-> "super_art", v |-> [prob |-> 100,
        combo_str_1 |-> <<<<"comb", "2qc", "mp">>, <<"hold", "lr", 4, 24, "p">>>>,
        combo_str_2 |-> <<<<"comb", "2qc", "mp">>>>,
        combo_str_3 |-> <<<<"comb", "2qc", "mp">>>>]] >>

\* characters['sfiii']['Urien']
Moves_Urien ==
  <<
     [k |-> "metallic_sphere", v |-> [prob |-> 225, combo_str |-> <<<<"comb", "qc", "p">>, <<"rep", "p", 0, 12, "">>>>]],
     [k |-> "chariot_tackle", v |-> [prob |-> 225, combo_str |-> <<<<"hold", "lr", 16, 64, "k">>>>]],
     [k |-> "dangerous_headbutt", v |-> [prob |-> 225, combo_str |-> <<<<"hold", "d", 16, 64, "p">>>>]],
     [k |-> "violence_knee_drop", v |-> [prob |-> 225, combo_str |-> <<<<"hold", "d", 16, 64, "k">>>>]],
     [k |-> "super_art", v |-> [prob |-> 100,
        combo_str_1 |-> <<<<"comb", "2qc", "mp">>>>,
        combo_str_2 |-> <<<<"comb", "2qc", "mp">>>>,
        combo_str_3 |-> <<<<"comb", "2qc", "mp">>>>]] >>

\* characters['sfiii']['Remy']
Moves_Remy ==
  <<
     [k |-> "light_of_virtue", v |-> [prob |-> 225, combo_str |-> <<<<"hold", "lr", 16, 64, "p">>>>]],
     [k |-> "light_of_virtue_low", v |-> [prob |-> 225, combo_str |-> <<<<"hold", "lr", 16, 64, "k">>>>]],
     [k |-> "rising_rage_flash", v |-> [prob |-> 225, combo_str |-> <<<<"hold", "d", 16, 128, "k">>>>]],
     [k |-> "cold_blue_kick", v |-> [prob |-> 225, combo_str |-> <<<<"comb", "qc", "k">>>>]],
     [k |-> "super_art", v |-> [prob |-> 100,
        combo_str_1 |-> <<<<"comb", "2qc", "mp">>>>,
        combo_str_2 |-> <<<<"comb", "2qc", "mk">>>>,
        combo_str_3 |-> <<<<"comb", "2qc", "mk">>>>]] >>

\* characters['sfiii']['Ryu']
Moves_Ryu ==
  <<
     [k |-> "hadouken", v |-> [prob |-> 225, combo_str |-> <<<<"comb", "qc", "p">>>>]],
     [k |-> "shoryuken", v |-> [prob |-> 225, combo_str |-> <<<<"comb", "dp", "p">>>>]],
     [k |-> "tatsumaki_senpukyaku", v |-> [prob |-> 225, combo_str |-> <<<<"comb", "qc", "k">>>>]],
     [k |-> "joudan_sokutou_geri", v |-> [prob |-> 225, combo_str |-> <<<<"comb", "hc", "k">>>>]],
     [k |-> "super_art", v |-> [prob |-> 100,
        combo_str_1 |-> <<<<"comb", "2qc", "mp">>>>,
        combo_str_2 |-> <<<<"comb", "2qc", "mp">>>>,
        combo_str_3 |-> <<<<"comb", "2qc", "mp">>, <<"rep", "mp", 0, 16, "">>>>]] >>

\* characters['sfiii']['Gouki']
Moves_Gouki ==
  <<
     [k |-> "go_zankuu_hadouken", v |-> [prob |-> 150, combo_str |-> <<<<"comb", "qc", "p">>>>]],
     [k |-> "shakenutsu-hadouken", v |-> [prob |-> 150, combo_str |-> <<<<"comb", "hc", "p">>>>]],
     [k |-> "go_shoryuken", v |-> [prob |-> 150, combo_str |-> <<<<"comb", "dp", "p">>>>]],
     [k |-> "tatsumaki_senpukyaku", v |-> [prob |-> 150, combo_str |-> <<<<"comb", "qc", "k">>>>]],
     [k |-> "hyakkishu_go", v |-> [prob |-> 75, combo_str |-> <<<<"comb", "dp", "k">>, <<"rep", "p", 0, 2, "t">>>>]],
     [k |-> "hyakkishu_sho", v |-> [prob |-> 75, combo_str |-> <<<<"comb", "dp", "k">>, <<"rep", "k", 0, 2, "t">>>>]],
     [k |-> "hyakkishu_sho_sai", v |-> [prob |-> 75, combo_str |-> <<<<"comb", "dp", "k">>, <<"rep", "mpk", 0, 2, "t">>>>]],
     [k |-> "shun_goku_satsu", v |-> [prob |-> 55, combo_str |-> <<<<"raw", "+lp", "+", "+lp">>, <<"comb", "lr", "">>, <<"raw", "+lk", "+", "+hp">>>>]],
     [k |-> "target_combo_1", v |-> [prob |-> 20, combo_str |-> <<<<"rep", "mp", 5, 5, "t">>, <<"raw", "+">>, <<"rep", "hp", 5, 5, "t">>>>]],
     [k |-> "super_art", v |-> [prob |-> 100,
        combo_str_1 |-> <<<<"comb", "2qc", "mp">>>>,
        combo_str_2 |-> <<<<"comb", "2qc", "mp">>>>,
        combo_str_3 |-> <<<<"comb", "2qc", "mk">>>>]] >>

\* characters['sfiii']['Yun']
Moves_Yun ==
  <<
     [k |-> "zenpou_tenshin", v |-> [prob |-> 225, combo_str |-> <<<<"comb", "hc", "k">>>>]],
     [k |-> "kobokushi_zesshou_hohou", v |-> [prob |-> 225, combo_str |-> <<<<"comb", "qc", "p">>>>]],
     [k |-> "tetsuzanko", v |-> [prob |-> 225, combo_str |-> <<<<"comb", "dp", "p">>>>]],
     [k |-> "nishoukyaku", v |-> [prob |-> 225, combo_str |-> <<<<"comb", "dp", "k">>>>]],
     [k |-> "super_art", v |-> [prob |-> 100,
        combo_str_1 |-> <<<<"comb", "2qc", "mp">>>>,
        combo_str_2 |-> <<<<"comb", "2qc", "mp">>>>,
        combo_str_3 |-> <<<<"comb", "2qc", "mk">>>>]] >>

\* characters['sfiii']['Yang']
Moves_Yang ==
  <<
     [k |-> "tourou_zan_byakko_soushouda", v |-> [prob |-> 225, combo_str |-> <<<<"comb", "qc", "p">>>>]],
     [k |-> "senkyuutai", v |-> [prob |-> 225, combo_str |-> <<<<"comb", "qc", "k">>>>]],
     [k |-> "zenpou_tenshin", v |-> [prob |-> 225, combo_str |-> <<<<"comb", "hc", "k">>>>]],
     [k |-> "kaihou", v |-> [prob |-> 225, combo_str |-> <<<<"comb", "dp", "k">>>>]],
     [k |-> "super_art", v |-> [prob |-> 100,
        combo_str_1 |-> <<<<"comb", "2qc", "mp">>>>,
        combo_str_2 |-> <<<<"comb", "2qc", "mk">>>>,
        combo_str_3 |-> <<<<"comb", "2qc", "mp">>>>]] >>

\* characters['sfiii']['Ken']
Moves_Ken ==
  <<
     [k |-> "hadouken", v |-> [prob |-> 225, combo_str |-> <<<<"comb", "qc", "p">>>>]],
     [k |-> "shoryuken", v |-> [prob |-> 225, combo_str |-> <<<<"comb", "dp", "p">>>>]],
     [k |-> "tatsumaki_senpukyaku", v |-> [prob |-> 225, combo_str |-> <<<<"comb", "qc", "k">>>>]],
     [k |-> "grab", v |-> [prob |-> 225, combo_str |-> <<<<"rep", "lpk", 1, 8, "t">>>>]],
     [k |-> "super_art", v |-> [prob |-> 100,
        combo_str_1 |-> <<<<"comb", "2qc", "mp">>>>,
        combo_str_2 |-> <<<<"comb", "2qc", "mk">>, <<"rep", "mk", 0, 16, "t">>>>,
        combo_str_3 |-> <<<<"comb", "2qc", "mk">>>>]] >>

\* the moveset of the selector test: two moves whose weights sum to 0.5
Moves_Half ==
  << [k |-> "first", v |-> [prob |-> 300, combo_str |-> <<<<"comb", "qc", "p">>>>]],
     [k |-> "second", v |-> [prob |-> 200, combo_str |-> <<<<"comb", "dp", "k">>>>]] >>

\* self.characters['sfiii'], an ordered dict character -> moveset
ShippedRoster ==
  << [k |-> "Alex", v |-> Moves_Alex],
     [k |-> "Twelve", v |-> Moves_Twelve],
     [k |-> "Hugo", v |-> Moves_Hugo],
     [k |-> "Sean", v |-> Moves_Sean],
     [k |-> "Makoto", v |-> Moves_Makoto],
     [k |-> "Elena", v |-> Moves_Elena],
     [k |-> "Ibuki", v |-> Moves_Ibuki],
     [k |-> "Chun-Li", v |-> Moves_ChunLi],
     [k |-> "Dudley", v |-> Moves_Dudley],
     [k |-> "Necro", v |-> Moves_Necro],
     [k |-> "Q", v |-> Moves_Q],
     [k |-> "Oro", v |-> Moves_Oro],
     [k |-> "Urien", v |-> Moves_Urien],
     [k |-> "Remy", v |-> Moves_Remy],
     [k |-> "Ryu", v |-> Moves_Ryu],
     [k |-> "Gouki", v |-> Moves_Gouki],
     [k |-> "Yun", v |-> Moves_Yun],
     [k |-> "Yang", v |-> Moves_Yang],
     [k |-> "Ken", v |-> Moves_Ken] >>

\* self.characters, environment name -> roster.  The code ships 'sfiii';
\* a moveset whose sole move has descriptor comb_qc_p and weight 1.0
Moves_Solo ==
  << [k |-> "only",
      v |-> [prob |-> 1000, combo_str |-> << <<"comb", "qc", "p">> >>]] >>

\* a moveset whose sole move, comb_qc_x, names an attack that is none of the
\* vocabulary: its last token is not a key of action_idx_lookup
Moves_Odd ==
  << [k |-> "odd",
      v |-> [prob |-> 1000, combo_str |-> << <<"comb", "qc", "x">> >>]] >>

\* 'test' is the roster a test installs: the shipped characters, one whose
\* weights sum to 0.5, one with a sole move and one with an unknown attack
characters ==
  [sfiii |-> ShippedRoster,
   test  |-> ShippedRoster \o << [k |-> "Half", v |-> Moves_Half],
                                  [k |-> "Solo", v |-> Moves_Solo],
                                  [k |-> "Odd", v |-> Moves_Odd] >>]

\* key in dict
HasKey(d, key) == \E i \in DOMAIN d : d[i].k = key

(***************************************************************************)
(* Move selector, movement and jump samplers, token encoder.               *)
(***************************************************************************)
\* mutant: when no move matches, the last move is taken instead of the
\* fallback
RECURSIVE SelectFrom_LastMove(_, _, _, _)
SelectFrom_LastMove(moves_dict, i, prob_acc, roll) ==
  IF i > Len(moves_dict) THEN Len(moves_dict)
  ELSE IF RollLeq(roll, prob_acc + moves_dict[i].v.prob) THEN i
  ELSE SelectFrom_LastMove(moves_dict, i + 1,
                           prob_acc + moves_dict[i].v.prob, roll)

\* mutant: the comparison is strict, roll < prob_acc
RECURSIVE SelectFrom_Strict(_, _, _, _)
SelectFrom_Strict(moves_dict, i, prob_acc, roll) ==
  IF i > Len(moves_dict) THEN 0
  ELSE IF RollLess(roll, prob_acc + moves_dict[i].v.prob) THEN i
  ELSE SelectFrom_Strict(moves_dict, i + 1,
                         prob_acc + moves_dict[i].v.prob, roll)

\* mutant: the loop does not stop at the first match, so that the last
\* move whose accumulated weight meets the draw is taken
RECURSIVE SelectFrom_LastMeeting(_, _, _, _)
SelectFrom_LastMeeting(moves_dict, i, prob_acc, roll) ==
  IF i > Len(moves_dict) THEN 0
  ELSE LET later == SelectFrom_LastMeeting(moves_dict, i + 1,
                      prob_acc + moves_dict[i].v.prob, roll)
       IN  IF later # 0 THEN later
           ELSE IF RollLeq(roll, prob_acc + moves_dict[i].v.prob) THEN i
           ELSE 0

\* the accumulation loop: the position of the first move whose accumulated
\* weight satisfies roll <= prob_acc, 0 when the loop ends without one
RECURSIVE SelectFrom(_, _, _, _)
SelectFrom(moves_dict, i, prob_acc, roll) ==
  IF i > Len(moves_dict) THEN 0
  ELSE IF RollLeq(roll, prob_acc + moves_dict[i].v.prob) THEN i
  ELSE SelectFrom(moves_dict, i + 1, prob_acc + moves_dict[i].v.prob, roll)

SelectMove(moves_dict, roll) == SelectFrom(moves_dict, 1, 0, roll)

\* mutant: the super art is always compiled from combo_str_1
special_of_Variant1(fs, ba, moves_dict, super_art, roll) ==
  LET sel == SelectMove(moves_dict, roll)
  IN  IF sel = 0
      THEN {[err |-> "", val |-> <<c>>, sel |-> 0] : c \in Choice(ba)}
      ELSE LET params    == moves_dict[sel].v
               combo_key == IF moves_dict[sel].k = "super_art"
                            THEN "combo_str_1"
                            ELSE "combo_str"
           IN  IF combo_key \notin DOMAIN params
               THEN {[err |-> "KeyError", val |-> <<>>, sel |-> sel]}
               ELSE {[err |-> o.err, val |-> o.val, sel |-> sel] :
                       o \in decode_action_string(fs, params[combo_key])}

\* the body of sample_character_special once roll is drawn; sel is the
\* position of the move compiled (0: the fallback, nothing compiled)
special_of(fs, ba, moves_dict, super_art, roll) ==
  LET sel == SelectMove(moves_dict, roll)
  IN  IF sel = 0
      THEN {[err |-> "", val |-> <<c>>, sel |-> 0] : c \in Choice(ba)}
      ELSE LET params    == moves_dict[sel].v
               combo_key == IF moves_dict[sel].k = "super_art"
                            THEN "combo_str" \o "_" \o ToString(super_art)
                            ELSE "combo_str"
           IN  IF combo_key \notin DOMAIN params
               THEN {[err |-> "KeyError", val |-> <<>>, sel |-> sel]}
               ELSE {[err |-> o.err, val |-> o.val, sel |-> sel] :
                       o \in decode_action_string(fs, params[combo_key])}

sample_character_special(fs, roster, ba, agent, roll) ==
  IF ~HasKey(roster, agent.character)
  THEN {[err |-> "NotImplementedError", val |-> <<>>, sel |-> 0]}
  ELSE special_of(fs, ba, DictGet(roster, agent.character),
                  agent.super_art, roll)

sample_movement_action(fs, roll, prob_dash, repeat_min, repeat_max) ==
  IF RollLess(roll, prob_dash)
  THEN {Ok(<<move, "+", move>>) : move \in Choice(<<"r+", "l+">>)}
  ELSE LET lengths == RandInt(repeat_min \div fs, repeat_max \div fs)
       IN  IF lengths = {} THEN {Raise("ValueError")}
           ELSE {Ok(Repeat(repeated, length)) :
                   repeated \in Choice(<<"l+", "dl+", "d+", "dr+", "r+">>),
                   length \in lengths}

sample_jump_action(roll, prob_super_jump) ==
  IF RollLess(roll, prob_super_jump)
  THEN LET moves == << <<"d+", "ul+">>, <<"d+", "u+">>, <<"d+", "ur+">> >>
       IN  {Ok(moves[n + 1]) : n \in RandInt(0, Len(moves))}
  ELSE {Ok(<<c>>) : c \in Choice(<<"ul+", "u+", "ur+">>)}

\* mutant: the substitute of an unknown string is drawn from 0 .. len
IdxOf_Inclusive(lookup, s) ==
  IF s \in DOMAIN lookup THEN {lookup[s]}
  ELSE RandInt(0, Cardinality(DOMAIN lookup) + 1)

\* one iteration of the loop of string_to_idx
IdxOf(lookup, s) ==
  IF s \in DOMAIN lookup THEN {lookup[s]}
  ELSE RandInt(0, Cardinality(DOMAIN lookup))

\* mutant: an unknown string is skipped
RECURSIVE string_to_idx_Skip(_, _)
string_to_idx_Skip(lookup, string_list) ==
  IF string_list = <<>> THEN {<<>>}
  ELSE IF Head(string_list) \notin DOMAIN lookup
       THEN string_to_idx_Skip(lookup, Tail(string_list))
  ELSE {<<lookup[Head(string_list)]>> \o t :
          t \in string_to_idx_Skip(lookup, Tail(string_list))}

RECURSIVE string_to_idx(_, _)
string_to_idx(lookup, string_list) ==
  IF string_list = <<>> THEN {<<>>}
  ELSE {<<h>> \o t : h \in IdxOf(lookup, Head(string_list)),
                     t \in string_to_idx(lookup, Tail(string_list))}

(***************************************************************************)
(* Scheduler: sample().                                                    *)
(***************************************************************************)
\* mutant: the emptiness test is always true
in_sequence_Always(agent) == Len(agent.move_sequence) >= 0

\* mutant: a queue holding one token counts as empty
in_sequence_OffByOne(agent) == Len(agent.move_sequence) > 1

\* in_sequence(player)
in_sequence(agent) == Len(agent.move_sequence) > 0

\* mutant: the roll is compared with the cumulative weights as given
Category_Unnormalized(roll, probs) ==
  LET Below(cum) == roll * 1000 < cum * RollDen
  IN  IF Below(probs.prob_jump) THEN "jump"
      ELSE IF Below(probs.prob_jump + probs.prob_basic) THEN "basic"
      ELSE IF Below(probs.prob_jump + probs.prob_basic + probs.prob_combo)
           THEN "combo"
      ELSE "movement"

\* the category whose cumulative normalized weight first exceeds the roll:
\* raw_probs / raw_probs.sum(), cumsum, roll < cdfs[i]
Category(roll, probs) ==
  LET sum == probs.prob_jump + probs.prob_basic + probs.prob_combo
               + probs.prob_movement
      Below(cum) == sum # 0 /\ roll * sum < cum * RollDen
  IN  IF Below(probs.prob_jump) THEN "jump"
      ELSE IF Below(probs.prob_jump + probs.prob_basic) THEN "basic"
      ELSE IF Below(probs.prob_jump + probs.prob_basic + probs.prob_combo)
           THEN "combo"
      ELSE "movement"

\* seq_idx[:cutoff]
Prefix(seq, cutoff) == SubSeq(seq, 1, IF cutoff < Len(seq) THEN cutoff ELSE Len(seq))

\* mutant: the cutoff is drawn from [0, length)
Truncations_FromZero(seq_idx, prob_cancel) ==
  UNION {IF RollLess(r, prob_cancel)
         THEN IF RandInt(0, Len(seq_idx)) = {}
              THEN {Raise("ValueError")}
              ELSE {Ok(Prefix(seq_idx, cutoff)) :
                      cutoff \in RandInt(0, Len(seq_idx))}
         ELSE {Ok(seq_idx)} :
         r \in Rolls}

\* the optional cancel truncation of the combo branch
Truncations(seq_idx, prob_cancel) ==
  UNION {IF RollLess(r, prob_cancel)
         THEN IF RandInt(1, Len(seq_idx) + 1) = {}
              THEN {Raise("ValueError")}
              ELSE {Ok(Prefix(seq_idx, cutoff)) :
                      cutoff \in RandInt(1, Len(seq_idx) + 1)}
         ELSE {Ok(seq_idx)} :
         r \in Rolls}

\* the sequences one category branch can install; sampled is the index
\* list before any truncation, val the list installed
Encoded(lookup, outs) ==
  UNION {IF o.err # "" THEN {[err |-> o.err, sampled |-> <<>>, val |-> <<>>]}
         ELSE {[err |-> "", sampled |-> s, val |-> s] :
                 s \in string_to_idx(lookup, o.val)} :
         o \in outs}

BranchSeqs(category, fs, roster, ba, lookup, agent, probs) ==
  CASE category = "jump" ->
         Encoded(lookup,
                 UNION {sample_jump_action(r, DefaultProbSuperJump) :
                          r \in Rolls})
    [] category = "basic" ->
         {[err |-> "", sampled |-> <<single_idx>>, val |-> <<single_idx>>] :
            single_idx \in RandInt(0, Cardinality(DOMAIN lookup))}
    [] category = "combo" ->
         UNION {IF e.err # "" THEN {e}
                ELSE {[err |-> t.err, sampled |-> e.sampled, val |-> t.val] :
                        t \in Truncations(e.sampled, probs.prob_cancel)} :
                e \in Encoded(lookup,
                        UNION {sample_character_special(fs, roster, ba,
                                                        agent, r) :
                                 r \in Rolls})}
    [] category = "movement" ->
         Encoded(lookup,
                 UNION {sample_movement_action(fs, r, DefaultProbDash,
                          DefaultRepeatMin, DefaultRepeatMax) :
                          r \in Rolls})

\* mutant: pop() takes the token from the right end
PopLeft_Right(q) == [item |-> q[Len(q)], rest |-> SubSeq(q, 1, Len(q) - 1)]

\* mutant: the head is read but not removed
PopLeft_Peek(q) == [item |-> Head(q), rest |-> q]

\* deque.popleft()
PopLeft(q) == [item |-> Head(q), rest |-> Tail(q)]

\* one iteration of the loop over the agents: the outcomes for one agent.
\* tr records what the iteration did: the branch taken ("none" when no
\* sampling was done), the exception raised while sampling ("" if none),
\* the index list sampled and the list installed in the queue.
SampleAgent(fs, roster, ba, lookup, decode, agent, probs) ==
  LET Emit(q, tr) ==
        IF q = <<>>
        THEN [err |-> "IndexError", queue |-> q, idx |-> -1,
              multi |-> <<>>, tr |-> tr]
        ELSE LET p == PopLeft(q)
             IN  IF p.item \notin DOMAIN decode
                 THEN [err |-> "KeyError", queue |-> p.rest, idx |-> p.item,
                       multi |-> <<>>, tr |-> tr]
                 ELSE [err |-> "", queue |-> p.rest, idx |-> p.item,
                       multi |-> decode[p.item], tr |-> tr]
  IN  IF in_sequence(agent)
      THEN {Emit(agent.move_sequence,
                 [branch |-> "none", raised |-> "", sampled |-> <<>>,
                  installed |-> <<>>])}
      ELSE UNION {
             {IF b.err # ""
              THEN [err |-> b.err, queue |-> agent.move_sequence, idx |-> -1,
                    multi |-> <<>>,
                    tr |-> [branch |-> c, raised |-> b.err,
                            sampled |-> b.sampled, installed |-> <<>>]]
              ELSE Emit(b.val,
                        [branch |-> c, raised |-> "", sampled |-> b.sampled,
                         installed |-> b.val]) :
                b \in BranchSeqs(c, fs, roster, ba, lookup, agent, probs)} :
             c \in {Category(r, probs) : r \in Rolls}}

\* mutant: the agents share one deque, so that the queue written for one
\* agent is the queue of all
RECURSIVE SampleFrom_SharedQueue(_, _, _, _, _, _, _, _, _, _)
SampleFrom_SharedQueue(n, st, acts, tr, fs, roster, ba, lookup, decode, probs) ==
  IF n > Len(st)
  THEN {[err |-> "", agent_state |-> st, actions |-> acts, trace |-> tr]}
  ELSE UNION {
         LET st2 == [m \in DOMAIN st |->
                       [st[m] EXCEPT !.v.move_sequence = o.queue]]
             tr2 == Append(tr, o.tr)
         IN  IF o.err # ""
             THEN {[err |-> o.err, agent_state |-> st2, actions |-> acts,
                    trace |-> tr2]}
             ELSE SampleFrom_SharedQueue(n + 1, st2,
                    [discrete |-> (st[n].k :> o.idx) @@ acts.discrete,
                     multi_discrete |->
                       (st[n].k :> o.multi) @@ acts.multi_discrete],
                    tr2, fs, roster, ba, lookup, decode, probs) :
         o \in SampleAgent(fs, roster, ba, lookup, decode, st[n].v, probs)}

\* mutant: when an agent raises, the index taken from the queue of each
\* agent processed before it is put back
RECURSIVE SampleFrom_PutBack(_, _, _, _, _, _, _, _, _, _)
SampleFrom_PutBack(n, st, acts, tr, fs, roster, ba, lookup, decode, probs) ==
  IF n > Len(st)
  THEN {[err |-> "", agent_state |-> st, actions |-> acts, trace |-> tr]}
  ELSE UNION {
         LET st2 == [st EXCEPT ![n].v.move_sequence = o.queue]
             st3 == [m \in DOMAIN st |->
                       IF m < n
                       THEN [st[m] EXCEPT !.v.move_sequence =
                               <<acts.discrete[st[m].k]>> \o @]
                       ELSE st2[m]]
             tr2 == Append(tr, o.tr)
         IN  IF o.err # ""
             THEN {[err |-> o.err, agent_state |-> st3, actions |-> acts,
                    trace |-> tr2]}
             ELSE SampleFrom_PutBack(n + 1, st2,
                    [discrete |-> (st[n].k :> o.idx) @@ acts.discrete,
                     multi_discrete |->
                       (st[n].k :> o.multi) @@ acts.multi_discrete],
                    tr2, fs, roster, ba, lookup, decode, probs) :
         o \in SampleAgent(fs, roster, ba, lookup, decode, st[n].v, probs)}

\* the loop over self.agent_state in registration order, from position n;
\* an exception leaves the agents already processed updated
RECURSIVE SampleFrom(_, _, _, _, _, _, _, _, _, _)
SampleFrom(n, st, acts, tr, fs, roster, ba, lookup, decode, probs) ==
  IF n > Len(st)
  THEN {[err |-> "", agent_state |-> st, actions |-> acts, trace |-> tr]}
  ELSE UNION {
         LET st2 == [st EXCEPT ![n].v.move_sequence = o.queue]
             tr2 == Append(tr, o.tr)
         IN  IF o.err # ""
             THEN {[err |-> o.err, agent_state |-> st2, actions |-> acts,
                    trace |-> tr2]}
             ELSE SampleFrom(n + 1, st2,
                    [discrete |-> (st[n].k :> o.idx) @@ acts.discrete,
                     multi_discrete |->
                       (st[n].k :> o.multi) @@ acts.multi_discrete],
                    tr2, fs, roster, ba, lookup, decode, probs) :
         o \in SampleAgent(fs, roster, ba, lookup, decode, st[n].v, probs)}

EmptyActions == [discrete |-> <<>>, multi_discrete |-> <<>>]

sample(probs) ==
  SampleFrom(1, agent_state, EmptyActions, <<>>, frame_skip,
             characters[environment_name], base_actions, action_idx_lookup, input_lookup, probs)

(***************************************************************************)
(* The same samplers with the values they take from the random source.     *)
(* An outcome carries draws, the values drawn in the order the code draws  *)
(* them: r for a rand() of r/RollDen, n for a randint(), and the position  *)
(* of the element for a choice().  The rand() values are taken from        *)
(* ReplayRolls.                                                            *)
(***************************************************************************)
\* rand() values replayed: 0.0 (jump, super jump, dash, cancel), 0.3 (combo)
\* and 0.75 (movement) under the default weights
ReplayRolls == {0, 12, 30}

\* np.random.choice(list) with the position drawn
ChoiceDrawn(list) == {[draws |-> <<i>>, val |-> list[i]] : i \in DOMAIN list}

\* _decode_action_string with _combine_actions, _hold_direction and
\* _repeat_attack
RECURSIVE decode_action_stringDrawn(_, _)
decode_action_stringDrawn(fs, action_string) ==
  LET Attack(attack_string) ==
        IF attack_string = "p" THEN ChoiceDrawn(<<"lp", "mp", "hp">>)
        ELSE IF attack_string = "k" THEN ChoiceDrawn(<<"lk", "mk", "hk">>)
        ELSE {[draws |-> <<>>, val |-> attack_string]}
      Pattern(a, b, n) ==
        {[draws |-> c.draws, val |-> Times(move_pattern_names[c.val], n)] :
           c \in ChoiceDrawn(<<a, b>>)}
      Moves(move_string) ==
        CASE move_string = "qc"  -> Pattern("rqc", "lqc", 1)
          [] move_string = "2qc" -> Pattern("rqc", "lqc", 2)
          [] move_string = "hc"  -> Pattern("rhc", "lhc", 1)
          [] move_string = "fc"  -> Pattern("rfc", "lfc", 1)
          [] move_string = "2fc" -> Pattern("rfc", "lfc", 2)
          [] move_string = "dp"  -> Pattern("rdp", "ldp", 1)
          [] move_string = "2dp" -> Pattern("rdp", "ldp", 2)
          [] move_string = "lr"  ->
               {[draws |-> c.draws, val |-> <<c.val>>] :
                  c \in ChoiceDrawn(<<"l", "r">>)}
          [] OTHER -> {[draws |-> <<>>, val |-> <<move_string>>]}
      Combine(move_string, attack_string) ==
        {[err |-> "",
          val |-> ZipTokens(m.val, Repeat("", Len(m.val) - 1) \o <<a.val>>),
          draws |-> m.draws \o a.draws] :
           m \in Moves(move_string), a \in Attack(attack_string)}
      Hold(direction, min_f, max_f, release_in) ==
        UNION {
          LET steps == RandInt(min_f \div fs, (max_f + 1) \div fs)
          IN  IF steps = {}
              THEN {[err |-> "ValueError", val |-> <<>>, draws |-> rel.draws]}
              ELSE IF direction = "d" THEN
                {[err |-> "", val |-> HoldTokens(d.val, n, rel.val, "u"),
                  draws |-> rel.draws \o <<n>> \o d.draws] :
                   n \in steps, d \in ChoiceDrawn(<<"d", "dl", "dr">>)}
              ELSE IF direction = "lr" THEN
                {[err |-> "",
                  val |-> HoldTokens(d.val, n, rel.val,
                                     IF EndsWithR(d.val) THEN "l" ELSE "r"),
                  draws |-> rel.draws \o <<n>> \o d.draws] :
                   n \in steps, d \in ChoiceDrawn(<<"l", "dl", "dr", "r">>)}
              ELSE {[err |-> "", val |-> ZipTokens(<<direction>>, <<"">>),
                     draws |-> rel.draws \o <<n>>] : n \in steps} :
          rel \in Attack(release_in)}
      Rep(attack_in, min_r, max_r, tap) ==
        UNION {
          LET reps == RandInt(min_r, max_r + 1)
          IN  IF reps = {}
              THEN {[err |-> "ValueError", val |-> <<>>, draws |-> a.draws]}
              ELSE {[err |-> "",
                     val |-> Times(<<Token("", a.val)>>
                               \o Repeat("+", IF tap = "" THEN 0 ELSE 1), n),
                     draws |-> a.draws \o <<n>>] : n \in reps} :
          a \in Attack(attack_in)}
      Segment(parts) ==
        CASE parts[1] = "comb" -> Combine(parts[2], parts[3])
          [] parts[1] = "hold" ->
               IF Len(parts) # 5
               THEN {[err |-> "ValueError", val |-> <<>>, draws |-> <<>>]}
               ELSE Hold(parts[2], parts[3], parts[4], parts[5])
          [] parts[1] = "rep" ->
               IF Len(parts) # 5
               THEN {[err |-> "ValueError", val |-> <<>>, draws |-> <<>>]}
               ELSE Rep(parts[2], parts[3], parts[4], parts[5])
          [] parts[1] = "raw" ->
               {[err |-> "", val |-> SubSeq(parts, 2, Len(parts)),
                 draws |-> <<>>]}
          [] OTHER -> {[err |-> "", val |-> <<>>, draws |-> <<>>]}
  IN  IF action_string = <<>>
      THEN {[err |-> "", val |-> <<>>, draws |-> <<>>]}
      ELSE UNION {
             IF h.err # "" THEN {h}
             ELSE {[err |-> t.err,
                    val |-> IF t.err # "" THEN <<>> ELSE h.val \o t.val,
                    draws |-> h.draws \o t.draws] :
                     t \in decode_action_stringDrawn(fs, Tail(action_string))} :
             h \in Segment(Head(action_string))}

sample_character_specialDrawn(fs, roster, ba, agent) ==
  IF ~HasKey(roster, agent.character)
  THEN {[err |-> "NotImplementedError", val |-> <<>>, draws |-> <<>>]}
  ELSE UNION {
         LET moves_dict == DictGet(roster, agent.character)
             sel        == SelectMove(moves_dict, roll)
         IN  IF sel = 0
             THEN {[err |-> "", val |-> <<c.val>>,
                    draws |-> <<roll>> \o c.draws] : c \in ChoiceDrawn(ba)}
             ELSE LET params    == moves_dict[sel].v
                      combo_key == IF moves_dict[sel].k = "super_art"
                                   THEN "combo_str" \o "_"
                                          \o ToString(agent.super_art)
                                   ELSE "combo_str"
                  IN  IF combo_key \notin DOMAIN params
                      THEN {[err |-> "KeyError", val |-> <<>>,
                             draws |-> <<roll>>]}
                      ELSE {[err |-> o.err, val |-> o.val,
                             draws |-> <<roll>> \o o.draws] :
                              o \in decode_action_stringDrawn(fs,
                                      params[combo_key])} :
         roll \in ReplayRolls}

sample_movement_actionDrawn(fs, prob_dash, repeat_min, repeat_max) ==
  UNION {
    IF RollLess(roll, prob_dash)
    THEN {[err |-> "", val |-> <<move.val, "+", move.val>>,
           draws |-> <<roll>> \o move.draws] :
            move \in ChoiceDrawn(<<"r+", "l+">>)}
    ELSE UNION {
           LET lengths == RandInt(repeat_min \div fs, repeat_max \div fs)
           IN  IF lengths = {}
               THEN {[err |-> "ValueError", val |-> <<>>,
                      draws |-> <<roll>> \o repeated.draws]}
               ELSE {[err |-> "", val |-> Repeat(repeated.val, length),
                      draws |-> <<roll>> \o repeated.draws \o <<length>>] :
                       length \in lengths} :
           repeated \in ChoiceDrawn(<<"l+", "dl+", "d+", "dr+", "r+">>)} :
    roll \in ReplayRolls}

sample_jump_actionDrawn(prob_super_jump) ==
  UNION {
    IF RollLess(roll, prob_super_jump)
    THEN LET moves == << <<"d+", "ul+">>, <<"d+", "u+">>, <<"d+", "ur+">> >>
         IN  {[err |-> "", val |-> moves[n + 1], draws |-> <<roll, n>>] :
                n \in RandInt(0, Len(moves))}
    ELSE {[err |-> "", val |-> <<c.val>>, draws |-> <<roll>> \o c.draws] :
            c \in ChoiceDrawn(<<"ul+", "u+", "ur+">>)} :
    roll \in ReplayRolls}

RECURSIVE string_to_idxDrawn(_, _)
string_to_idxDrawn(lookup, string_list) ==
  IF string_list = <<>> THEN {[val |-> <<>>, draws |-> <<>>]}
  ELSE LET s == Head(string_list)
           heads == IF s \in DOMAIN lookup
                    THEN {[val |-> lookup[s], draws |-> <<>>]}
                    ELSE {[val |-> n, draws |-> <<n>>] :
                            n \in RandInt(0, Cardinality(DOMAIN lookup))}
       IN  {[val |-> <<h.val>> \o t.val, draws |-> h.draws \o t.draws] :
              h \in heads, t \in string_to_idxDrawn(lookup, Tail(string_list))}

\* one iteration of the loop over the agents, as SampleAgent
SampleAgentDrawn(fs, roster, ba, lookup, decode, agent, probs) ==
  LET Emit(q, tr, draws) ==
        IF q = <<>>
        THEN [err |-> "IndexError", queue |-> q, idx |-> -1,
              multi |-> <<>>, tr |-> tr, draws |-> draws]
        ELSE LET p == PopLeft(q)
             IN  IF p.item \notin DOMAIN decode
                 THEN [err |-> "KeyError", queue |-> p.rest, idx |-> p.item,
                       multi |-> <<>>, tr |-> tr, draws |-> draws]
                 ELSE [err |-> "", queue |-> p.rest, idx |-> p.item,
                       multi |-> decode[p.item], tr |-> tr, draws |-> draws]
      Indexed(outs) ==
        UNION {IF o.err # ""
               THEN {[err |-> o.err, sampled |-> <<>>, val |-> <<>>,
                      draws |-> o.draws]}
               ELSE {[err |-> "", sampled |-> s.val, val |-> s.val,
                      draws |-> o.draws \o s.draws] :
                       s \in string_to_idxDrawn(lookup, o.val)} :
               o \in outs}
      Truncated(e) ==
        UNION {IF RollLess(r, probs.prob_cancel)
               THEN IF RandInt(1, Len(e.sampled) + 1) = {}
                    THEN {[err |-> "ValueError", sampled |-> e.sampled,
                           val |-> <<>>, draws |-> e.draws \o <<r>>]}
                    ELSE {[err |-> "", sampled |-> e.sampled,
                           val |-> Prefix(e.sampled, cutoff),
                           draws |-> e.draws \o <<r, cutoff>>] :
                            cutoff \in RandInt(1, Len(e.sampled) + 1)}
               ELSE {[err |-> "", sampled |-> e.sampled, val |-> e.sampled,
                      draws |-> e.draws \o <<r>>]} :
               r \in ReplayRolls}
      Branch(category) ==
        CASE category = "jump" ->
               Indexed(sample_jump_actionDrawn(DefaultProbSuperJump))
          [] category = "basic" ->
               {[err |-> "", sampled |-> <<single_idx>>,
                 val |-> <<single_idx>>, draws |-> <<single_idx>>] :
                  single_idx \in RandInt(0, Cardinality(DOMAIN lookup))}
          [] category = "combo" ->
               UNION {IF e.err # "" THEN {e} ELSE Truncated(e) :
                      e \in Indexed(sample_character_specialDrawn(fs, roster,
                                      ba, agent))}
          [] category = "movement" ->
               Indexed(sample_movement_actionDrawn(fs, DefaultProbDash,
                         DefaultRepeatMin, DefaultRepeatMax))
  IN  IF in_sequence(agent)
      THEN {Emit(agent.move_sequence,
                 [branch |-> "none", raised |-> "", sampled |-> <<>>,
                  installed |-> <<>>], <<>>)}
      ELSE UNION {
             LET c == Category(roll, probs)
             IN  {IF b.err # ""
                  THEN [err |-> b.err, queue |-> agent.move_sequence,
                        idx |-> -1, multi |-> <<>>,
                        tr |-> [branch |-> c, raised |-> b.err,
                                sampled |-> b.sampled, installed |-> <<>>],
                        draws |-> <<roll>> \o b.draws]
                  ELSE Emit(b.val,
                            [branch |-> c, raised |-> "",
                             sampled |-> b.sampled, installed |-> b.val],
                            <<roll>> \o b.draws) :
                    b \in Branch(c)} :
             roll \in ReplayRolls}

\* the draws of the agent with key k, appended to the draws of the call
Tagged(k, draws) == [i \in DOMAIN draws |-> [agent |-> k, value |-> draws[i]]]

\* mutant: the agents are visited from the last registered to the first
RECURSIVE SampleFromDrawn_Backwards(_, _, _, _, _, _)
SampleFromDrawn_Backwards(n, st, acts, tr, draws, outs) ==
  IF n > Len(st)
  THEN {[err |-> "", agent_state |-> st, actions |-> acts, trace |-> tr,
         draws |-> draws]}
  ELSE UNION {
         LET m   == Len(st) + 1 - n
             st2 == [st EXCEPT ![m].v.move_sequence = o.queue]
             tr2 == Append(tr, o.tr)
             dr2 == draws \o Tagged(st[m].k, o.draws)
         IN  IF o.err # ""
             THEN {[err |-> o.err, agent_state |-> st2, actions |-> acts,
                    trace |-> tr2, draws |-> dr2]}
             ELSE SampleFromDrawn_Backwards(n + 1, st2,
                    [discrete |-> (st[m].k :> o.idx) @@ acts.discrete,
                     multi_discrete |->
                       (st[m].k :> o.multi) @@ acts.multi_discrete],
                    tr2, dr2, outs) :
         o \in outs[Len(st) + 1 - n]}

\* the loop over self.agent_state from position n, as SampleFrom; outs[n]
\* is SampleAgentDrawn for the entry at position n, which no iteration
\* before the n-th writes
RECURSIVE SampleFromDrawn(_, _, _, _, _, _)
SampleFromDrawn(n, st, acts, tr, draws, outs) ==
  IF n > Len(st)
  THEN {[err |-> "", agent_state |-> st, actions |-> acts, trace |-> tr,
         draws |-> draws]}
  ELSE UNION {
         LET st2 == [st EXCEPT ![n].v.move_sequence = o.queue]
             tr2 == Append(tr, o.tr)
             dr2 == draws \o Tagged(st[n].k, o.draws)
         IN  IF o.err # ""
             THEN {[err |-> o.err, agent_state |-> st2, actions |-> acts,
                    trace |-> tr2, draws |-> dr2]}
             ELSE SampleFromDrawn(n + 1, st2,
                    [discrete |-> (st[n].k :> o.idx) @@ acts.discrete,
                     multi_discrete |->
                       (st[n].k :> o.multi) @@ acts.multi_discrete],
                    tr2, dr2, outs) :
         o \in outs[n]}

sampleDrawn(probs) ==
  LET Outs(n) == SampleAgentDrawn(frame_skip, characters[environment_name],
                   base_actions, action_idx_lookup, input_lookup,
                   agent_state[n].v, probs)
      outs == IF agent_state = <<>> THEN <<>>
              ELSE IF Len(agent_state) = 1 THEN <<Outs(1)>>
              ELSE <<Outs(1), Outs(2)>>
  IN  SampleFromDrawn(1, agent_state, EmptyActions, <<>>, <<>>, outs)

(***************************************************************************)
(* reset().  agent_state is an ordered dict agent id -> state, written as  *)
(* a sequence of (k, v) entries in insertion order.                        *)
(***************************************************************************)
\* f'agent_{i}' for the entry at position n of the lists (i = n - 1)
AgentKey(n) == "agent_" \o ToString(n - 1)

\* mutant: a failing call leaves no agent registered
RECURSIVE ResetFrom_Discard(_, _, _, _, _)
ResetFrom_Discard(n, st, roster, chars, super_arts) ==
  IF n > Len(chars) \/ n > Len(super_arts) THEN [err |-> "", agent_state |-> st]
  ELSE IF ~HasKey(roster, chars[n]) \/ super_arts[n] \notin {1, 2, 3}
       THEN [err |-> "NotImplementedError", agent_state |-> <<>>]
  ELSE ResetFrom_Discard(n + 1,
                 Append(st, [k |-> AgentKey(n),
                             v |-> [move_sequence |-> <<>>,
                                    character |-> chars[n],
                                    super_art |-> super_arts[n]]]),
                 roster, chars, super_arts)

\* mutant: the loop runs to the end of the longer list and an entry without
\* a partner is rejected
RECURSIVE ResetFrom_Longest(_, _, _, _, _)
ResetFrom_Longest(n, st, roster, chars, super_arts) ==
  IF n > Len(chars) /\ n > Len(super_arts) THEN [err |-> "", agent_state |-> st]
  ELSE IF n > Len(chars) \/ n > Len(super_arts)
       THEN [err |-> "NotImplementedError", agent_state |-> st]
  ELSE IF ~HasKey(roster, chars[n]) \/ super_arts[n] \notin {1, 2, 3}
       THEN [err |-> "NotImplementedError", agent_state |-> st]
  ELSE ResetFrom_Longest(n + 1,
                 Append(st, [k |-> AgentKey(n),
                             v |-> [move_sequence |-> <<>>,
                                    character |-> chars[n],
                                    super_art |-> super_arts[n]]]),
                 roster, chars, super_arts)

\* the loop over zip(characters, super_arts) from position n
RECURSIVE ResetFrom(_, _, _, _, _)
ResetFrom(n, st, roster, chars, super_arts) ==
  IF n > Len(chars) \/ n > Len(super_arts) THEN [err |-> "", agent_state |-> st]
  ELSE IF ~HasKey(roster, chars[n])
       THEN [err |-> "NotImplementedError", agent_state |-> st]
  ELSE IF super_arts[n] \notin {1, 2, 3}
       THEN [err |-> "NotImplementedError", agent_state |-> st]
  ELSE ResetFrom(n + 1,
                 Append(st, [k |-> AgentKey(n),
                             v |-> [move_sequence |-> <<>>,
                                    character |-> chars[n],
                                    super_art |-> super_arts[n]]]),
                 roster, chars, super_arts)

reset(roster, chars, super_arts) == ResetFrom(1, <<>>, roster, chars, super_arts)

(***************************************************************************)
(* Inputs of the calls.                                                    *)
(***************************************************************************)
RosterNames(roster) == {roster[i].k : i \in DOMAIN roster}

\* the (characters, super_arts) lists handed to reset()
ResetInputs ==
  {[characters |-> <<>>, super_arts |-> <<>>],
   [characters |-> <<"Ken">>, super_arts |-> <<2>>],
   [characters |-> <<"Chun-Li">>, super_arts |-> <<2>>],
   [characters |-> <<"Gouki">>, super_arts |-> <<3>>],
   [characters |-> <<"Oro">>, super_arts |-> <<1>>],
   [characters |-> <<"Bogus">>, super_arts |-> <<1>>],
   [characters |-> <<"Ryu", "Yun">>, super_arts |-> <<1, 2>>],
   [characters |-> <<"Ken", "Bogus">>, super_arts |-> <<1, 1>>],
   [characters |-> <<"Ken", "Ryu">>, super_arts |-> <<1, 4>>],
   [characters |-> <<"Ken", "Bogus">>, super_arts |-> <<1>>],
   [characters |-> <<"Ken">>, super_arts |-> <<2, 4>>]}

\* the same lists and, alone, every character of the shipped roster
RosterInputs ==
  ResetInputs \cup
  {[characters |-> <<"Alex">>, super_arts |-> <<1>>],
   [characters |-> <<"Twelve">>, super_arts |-> <<2>>],
   [characters |-> <<"Hugo">>, super_arts |-> <<3>>],
   [characters |-> <<"Sean">>, super_arts |-> <<1>>],
   [characters |-> <<"Makoto">>, super_arts |-> <<2>>],
   [characters |-> <<"Elena">>, super_arts |-> <<3>>],
   [characters |-> <<"Ibuki">>, super_arts |-> <<1>>],
   [characters |-> <<"Chun-Li">>, super_arts |-> <<2>>],
   [characters |-> <<"Dudley">>, super_arts |-> <<3>>],
   [characters |-> <<"Necro">>, super_arts |-> <<1>>],
   [characters |-> <<"Q">>, super_arts |-> <<2>>],
   [characters |-> <<"Oro">>, super_arts |-> <<3>>],
   [characters |-> <<"Urien">>, super_arts |-> <<1>>],
   [characters |-> <<"Remy">>, super_arts |-> <<2>>],
   [characters |-> <<"Ryu">>, super_arts |-> <<3>>],
   [characters |-> <<"Gouki">>, super_arts |-> <<1>>],
   [characters |-> <<"Yun">>, super_arts |-> <<2>>],
   [characters |-> <<"Yang">>, super_arts |-> <<3>>],
   [characters |-> <<"Ken">>, super_arts |-> <<1>>]}

\* the keyword arguments handed to sample()
SampleInputs ==
  {DefaultProbs,
   [prob_jump |-> 0, prob_basic |-> 0, prob_combo |-> 500,
    prob_cancel |-> 1000, prob_movement |-> 0]}

\* the frame_skip values handed to the constructor
FrameSkips == {DefaultFrameSkip, 16, 70}

(***************************************************************************)
(* State machine.  pc is "ready" between calls, "returned" when the last   *)
(* call has returned and "raised" when it has raised; call, result and     *)
(* trace describe that call until the caller takes over again.             *)
(***************************************************************************)
NoCall == [op |-> "none"]

NoResult == [err |-> "", val |-> <<>>]

\* __init__(environment_name=env, frame_skip=fs)
Construct(env, fs) ==
  /\ frame_skip = fs
  /\ environment_name = env
  /\ base_actions = MakeBaseActions
  /\ action_idx_lookup = MakeActionIdxLookup(MakeBaseActions)
  /\ input_lookup = MakeInputLookup(MakeActionIdxLookup(MakeBaseActions))
  /\ agent_state = <<>>
  /\ pc = "ready"
  /\ call = NoCall
  /\ result = NoResult
  /\ trace = <<>>

Init ==
  /\ Construct("sfiii", DefaultFrameSkip)
  /\ fn_in = <<>>
  /\ fn_out = <<>>

InitAny ==
  /\ \E fs \in FrameSkips : Construct("sfiii", fs)
  /\ fn_in = <<>>
  /\ fn_out = <<>>

\* reset(in.characters, in.super_arts)
ResetCall(in) ==
  /\ pc = "ready"
  /\ LET o == reset(characters[environment_name], in.characters,
                    in.super_arts)
     IN  /\ agent_state' = o.agent_state
         /\ call' = [op |-> "reset", characters |-> in.characters,
                     super_arts |-> in.super_arts]
         /\ result' = [err |-> o.err, val |-> <<>>]
         /\ pc' = IF o.err = "" THEN "returned" ELSE "raised"
  /\ trace' = <<>>
  /\ UNCHANGED <<frame_skip, environment_name, base_actions, action_idx_lookup,
                 input_lookup, fn_in, fn_out>>

Reset == \E in \in ResetInputs : ResetCall(in)

ResetRoster == \E in \in RosterInputs : ResetCall(in)

\* sample(**probs)
SampleCall(probs) ==
  /\ pc = "ready"
  /\ \E o \in sample(probs) :
       /\ agent_state' = o.agent_state
       /\ call' = [op |-> "sample", probs |-> probs]
       /\ result' = IF o.err = "" THEN [err |-> "", val |-> o.actions]
                    ELSE [err |-> o.err, val |-> <<>>]
       /\ trace' = o.trace
       /\ pc' = IF o.err = "" THEN "returned" ELSE "raised"
  /\ UNCHANGED <<frame_skip, environment_name, base_actions, action_idx_lookup,
                 input_lookup, fn_in, fn_out>>

Sample == \E probs \in SampleInputs : SampleCall(probs)

\* control is back with the caller: the locals of the call are gone
Return ==
  /\ pc \in {"returned", "raised"}
  /\ pc' = "ready"
  /\ call' = NoCall
  /\ result' = NoResult
  /\ trace' = <<>>
  /\ UNCHANGED <<frame_skip, environment_name, base_actions, action_idx_lookup,
                 input_lookup, agent_state, fn_in, fn_out>>

Next == Reset \/ Sample \/ Return

NextRoster == ResetRoster \/ Sample \/ Return

\* the variables of the object, untouched by the calls of its pure methods
object == <<frame_skip, environment_name, base_actions, action_idx_lookup,
            input_lookup, agent_state, pc, call, result, trace>>

NotApplied == [done |-> FALSE, val |-> <<>>]

\* token strings handed to string_to_idx: three of the vocabulary, two not
EncoderStrings == {"d+lp", "+", "dl+hpk", "x+lp", "d+p"}

EncoderInputs ==
  UNION {[1 .. n -> EncoderStrings] : n \in 0 .. MaxStrLen}

InitEncoder ==
  /\ Construct("sfiii", DefaultFrameSkip)
  /\ fn_in \in EncoderInputs
  /\ fn_out = NotApplied

\* string_to_idx(fn_in)
ApplyStringToIdx ==
  /\ ~fn_out.done
  /\ \E o \in string_to_idx(action_idx_lookup, fn_in) :
       fn_out' = [done |-> TRUE, val |-> o]
  /\ UNCHANGED <<object, fn_in>>

NextEncoder == ApplyStringToIdx

SpecEncoder == InitEncoder /\ [][NextEncoder]_vars

\* the agent and the value of roll handed to sample_character_special
SelectorInputs ==
  {[agent |-> [move_sequence |-> <<>>, character |-> c, super_art |-> v],
    roll |-> r] :
     c \in RosterNames(characters.test), v \in {1, 2, 3}, r \in Rolls}

InitSelector ==
  /\ Construct("test", DefaultFrameSkip)
  /\ fn_in \in SelectorInputs
  /\ fn_out = NotApplied

\* sample_character_special(player) with roll = fn_in.roll
ApplySpecial ==
  /\ ~fn_out.done
  /\ \E o \in sample_character_special(frame_skip,
                characters[environment_name], base_actions, fn_in.agent,
                fn_in.roll) :
       fn_out' = [done |-> TRUE, val |-> o]
  /\ UNCHANGED <<object, fn_in>>

NextSelector == ApplySpecial

SpecSelector == InitSelector /\ [][NextSelector]_vars

\* the scenario of one agent playing the character with the sole move
ScenarioResets ==
  {[characters |-> <<"Solo">>, super_arts |-> <<1>>],
   [characters |-> <<"Solo">>, super_arts |-> <<3>>]}

\* the defaults, and the combo branch forced with cancelling switched off
ScenarioProbs ==
  {DefaultProbs,
   [prob_jump |-> 0, prob_basic |-> 0, prob_combo |-> 1000,
    prob_cancel |-> 0, prob_movement |-> 0]}

InitScenario ==
  /\ Construct("test", DefaultFrameSkip)
  /\ fn_in = <<>>
  /\ fn_out = <<>>

ResetScenario == \E in \in ScenarioResets : ResetCall(in)

SampleScenario == \E probs \in ScenarioProbs : SampleCall(probs)

NextScenario == ResetScenario \/ SampleScenario \/ Return

SpecScenario == InitScenario /\ [][NextScenario]_vars

\* the two-agent game whose sample() calls are replayed
ReplayResets ==
  {[characters |-> <<"Ryu", "Yun">>, super_arts |-> <<1, 2>>],
   [characters |-> <<"Ken">>, super_arts |-> <<3>>]}

\* a frame skip under which the movement branch can install an empty
\* sequence, so that sample() both returns and raises
InitReplay ==
  /\ Construct("sfiii", 16)
  /\ fn_in = <<>>
  /\ fn_out = <<>>

\* sample() with the values drawn kept in call.draws
SampleReplay ==
  /\ pc = "ready"
  /\ \E o \in sampleDrawn(DefaultProbs) :
       /\ agent_state' = o.agent_state
       /\ call' = [op |-> "sample", probs |-> DefaultProbs,
                   draws |-> o.draws]
       /\ result' = IF o.err = "" THEN [err |-> "", val |-> o.actions]
                    ELSE [err |-> o.err, val |-> <<>>]
       /\ trace' = o.trace
       /\ pc' = IF o.err = "" THEN "returned" ELSE "raised"
  /\ UNCHANGED <<frame_skip, environment_name, base_actions, action_idx_lookup,
                 input_lookup, fn_in, fn_out>>

ResetReplay == \E in \in ReplayResets : ResetCall(in)

NextReplay == ResetReplay \/ SampleReplay \/ Return

SpecReplay == InitReplay /\ [][NextReplay]_vars

\* the keyword arguments of sample() and the value of roll the category
\* is decided on
CategoryInputs ==
  LET weights == {0, 100, 300}
  IN  {[roll |-> r,
        probs |-> [prob_jump |-> j, prob_basic |-> b, prob_combo |-> c,
                   prob_cancel |-> x, prob_movement |-> m]] :
         r \in Rolls, j \in weights, b \in weights, c \in weights,
         m \in weights, x \in {0, 200}}

InitCategory ==
  /\ Construct("sfiii", DefaultFrameSkip)
  /\ fn_in \in CategoryInputs
  /\ fn_out = NotApplied

\* the category test of sample() with roll = fn_in.roll
ApplyCategory ==
  /\ ~fn_out.done
  /\ fn_out' = [done |-> TRUE, val |-> Category(fn_in.roll, fn_in.probs)]
  /\ UNCHANGED <<object, fn_in>>

NextCategory == ApplyCategory

SpecCategory == InitCategory /\ [][NextCategory]_vars

\* games on the test roster: a fallback of the move selector and an unknown
\* token; a shipped character
FixtureResets ==
  {[characters |-> <<"Half", "Odd">>, super_arts |-> <<1, 2>>],
   [characters |-> <<"Gouki">>, super_arts |-> <<3>>]}

InitFixture ==
  /\ \E fs \in FrameSkips : Construct("test", fs)
  /\ fn_in = <<>>
  /\ fn_out = <<>>

ResetFixture == \E in \in FixtureResets : ResetCall(in)

NextFixture == ResetFixture \/ Sample \/ Return

SpecFixture == InitFixture /\ [][NextFixture]_vars

\* the frame_skip values the compiler primitives are applied under
CompilerFrameSkips == {1, DefaultFrameSkip, 16}

\* (min, max) pairs of the descriptors: the shipped ones, a single point,
\* a range below one step of the default frame skip and an inverted one
FrameRanges == {<<16, 64>>, <<4, 24>>, <<16, 128>>, <<16, 16>>, <<12, 15>>,
                <<24, 4>>}

RepeatRanges == {<<3, 12>>, <<0, 8>>, <<5, 5>>, <<0, 2>>, <<1, 8>>, <<8, 3>>}

\* descriptors of the grammar: shipped ones and the docstring's examples
Descriptors ==
  {<< <<"comb", "qc", "p">> >>,
   << <<"hold", "d", 16, 64, "k">> >>,
   << <<"rep", "p", 0, 8, "t">> >>,
   << <<"rep", "k", 3, 16, "t">> >>,
   << <<"comb", "qc", "p">>, <<"rep", "p", 3, 12, "t">> >>,
   << <<"hold", "lr", 16, 64, "p">>, <<"rep", "p", 0, 8, "">> >>,
   << <<"comb", "2qc", "mp">>, <<"hold", "lr", 4, 24, "p">> >>,
   << <<"rep", "mp", 5, 5, "t">>, <<"raw", "+">>, <<"rep", "hp", 5, 5, "t">> >>,
   << <<"raw", "+lp", "+", "+lp">>, <<"comb", "lr", "">>,
      <<"raw", "+lk", "+", "+hp">> >>}

\* the arguments of the compiler primitives and of the movement sampler
CompilerInputs ==
  {[op |-> "combine", move_string |-> m, attack_string |-> a] :
     m \in {"qc", "2qc", "hc", "fc", "2fc", "dp", "2dp", "lr", "d"},
     a \in {"p", "k", "lp", "hk", ""}}
  \cup
  {[op |-> "hold", direction |-> d, min_frame |-> r[1], max_frame |-> r[2],
    release |-> rel] :
     d \in {"d", "lr", "u"}, r \in FrameRanges, rel \in {"", "p", "k", "hk"}}
  \cup
  {[op |-> "repeat", attack_string |-> a, min_repeats |-> r[1],
    max_repeats |-> r[2], tap |-> t] :
     a \in {"p", "k", "mp", "lpk"}, r \in RepeatRanges, t \in {"", "t"}}
  \cup
  {[op |-> "decode", action_string |-> d] : d \in Descriptors}
  \cup
  {[op |-> "movement", roll |-> r, prob_dash |-> DefaultProbDash,
    repeat_min |-> f[1], repeat_max |-> f[2]] :
     r \in Rolls,
     f \in FrameRanges \cup {<<DefaultRepeatMin, DefaultRepeatMax>>}}

InitCompiler ==
  /\ \E fs \in CompilerFrameSkips : Construct("sfiii", fs)
  /\ fn_in \in CompilerInputs
  /\ fn_out = NotApplied

\* fn_out' is one outcome of the call described by fn_in
Returns(outs) ==
  /\ ~fn_out.done
  /\ \E o \in outs : fn_out' = [done |-> TRUE, val |-> o]
  /\ UNCHANGED <<object, fn_in>>

\* _combine_actions(move_string, attack_string)
ApplyCombine ==
  /\ fn_in.op = "combine"
  /\ Returns(combine_actions(fn_in.move_string, fn_in.attack_string))

\* _hold_direction(direction, min_frame, max_frame, release)
ApplyHold ==
  /\ fn_in.op = "hold"
  /\ Returns(hold_direction(frame_skip, fn_in.direction, fn_in.min_frame,
                            fn_in.max_frame, fn_in.release))

\* _repeat_attack(attack_string, min_repeats, max_repeats, tap)
ApplyRepeat ==
  /\ fn_in.op = "repeat"
  /\ Returns(repeat_attack(fn_in.attack_string, fn_in.min_repeats,
                           fn_in.max_repeats, fn_in.tap))

\* _decode_action_string(action_string)
ApplyDecode ==
  /\ fn_in.op = "decode"
  /\ Returns(decode_action_string(frame_skip, fn_in.action_string))

\* sample_movement_action(prob_dash, repeat_min, repeat_max), roll given
ApplyMovement ==
  /\ fn_in.op = "movement"
  /\ Returns(sample_movement_action(frame_skip, fn_in.roll, fn_in.prob_dash,
                                    fn_in.repeat_min, fn_in.repeat_max))

NextCompiler ==
  ApplyCombine \/ ApplyHold \/ ApplyRepeat \/ ApplyDecode \/ ApplyMovement

SpecCompiler == InitCompiler /\ [][NextCompiler]_vars

\* the calls that produce token strings from the shipped data: the move
\* sampler for every shipped character, variant and draw, the movement
\* sampler and the jump sampler with their default arguments
TokenInputs ==
  {[op |-> "special",
    agent |-> [move_sequence |-> <<>>, character |-> c, super_art |-> v],
    roll |-> r] :
     c \in RosterNames(characters.sfiii), v \in {1, 2, 3}, r \in Rolls}
  \cup
  {[op |-> "movement", roll |-> r, prob_dash |-> DefaultProbDash,
    repeat_min |-> DefaultRepeatMin, repeat_max |-> DefaultRepeatMax] :
     r \in Rolls}
  \cup
  {[op |-> "jump", roll |-> r, prob_super_jump |-> DefaultProbSuperJump] :
     r \in Rolls}

InitTokens ==
  /\ Construct("sfiii", DefaultFrameSkip)
  /\ fn_in \in TokenInputs
  /\ fn_out = NotApplied

\* sample_character_special(player) for an agent of the shipped roster
ApplyRosterSpecial ==
  /\ fn_in.op = "special"
  /\ ApplySpecial

\* sample_jump_action(prob_super_jump), roll given
ApplyJump ==
  /\ fn_in.op = "jump"
  /\ Returns(sample_jump_action(fn_in.roll, fn_in.prob_super_jump))

NextTokens == ApplyRosterSpecial \/ ApplyMovement \/ ApplyJump

SpecTokens == InitTokens /\ [][NextTokens]_vars

Spec == Init /\ [][Next]_vars

SpecAny == InitAny /\ [][Next]_vars

\* every character of the shipped roster plays
SpecRoster == Init /\ [][NextRoster]_vars

\* a call that has been made ends: control comes back to the caller
SpecLive == Spec /\ WF_vars(Return)


(***************************************************************************)
(* Properties.                                                             *)
(***************************************************************************)
AgentKeys == {agent_state[n].k : n \in DOMAIN agent_state}

QueueOf(st, n) == st[n].v.move_sequence

SampleReturned == pc = "returned" /\ call.op = "sample"

SampleRaised == pc = "raised" /\ call.op = "sample"

SampleEnded == pc \in {"returned", "raised"} /\ call.op = "sample"

ResetEnded == pc \in {"returned", "raised"} /\ call.op = "reset"

\* the step taken is a call of sample()
SampleStep == pc = "ready" /\ pc' # "ready" /\ call'.op = "sample"

IsPrefix(a, b) == Len(a) <= Len(b) /\ a = SubSeq(b, 1, Len(a))

\* C1: with the default frame skip and the shipped roster every call of
\* sample() returns, and the 'discrete' and 'multi_discrete' maps returned
\* have exactly the registered agent ids as keys, holding for each agent one
\* index and the two-field form input_lookup[index] of that index.
C1_ResultShape ==
  /\ ~SampleRaised
  /\ SampleReturned =>
       /\ DOMAIN result.val.discrete = AgentKeys
       /\ DOMAIN result.val.multi_discrete = AgentKeys
       /\ \A a \in AgentKeys :
            /\ result.val.discrete[a] \in DOMAIN input_lookup
            /\ result.val.multi_discrete[a]
                 = input_lookup[result.val.discrete[a]]
            /\ Len(result.val.multi_discrete[a]) = 2

C1_Witness ==
  /\ SampleReturned
  /\ Len(agent_state) = 2
  /\ result.val.discrete["agent_0"] # result.val.discrete["agent_1"]

\* C2: in a call of sample(), an agent whose queue is not empty when its
\* turn comes is not sampled for and its queue gets shorter by one; an agent
\* whose queue is empty is sampled for.
C2_SampleOnlyWhenEmpty ==
  [][SampleStep =>
       \A n \in DOMAIN trace' :
         IF Len(QueueOf(agent_state, n)) > 0
         THEN /\ trace'[n].branch = "none"
              /\ trace'[n].sampled = <<>>
              /\ Len(QueueOf(agent_state', n))
                   = Len(QueueOf(agent_state, n)) - 1
         ELSE trace'[n].branch \in {"jump", "basic", "combo", "movement"}]_vars

C2_Witness ==
  /\ SampleReturned
  /\ Len(trace) = 2
  /\ trace[1].branch = "none"
  /\ trace[2].branch = "combo"
  /\ QueueOf(agent_state, 1) # <<>>

\* C3: for every frame skip, a sequence that sample() installs in the queue
\* of an idle agent has length at least 1 and the pop that follows never
\* meets an empty queue.
C3_InstalledNonEmpty ==
  SampleEnded =>
    /\ result.err # "IndexError"
    /\ \A n \in DOMAIN trace :
         (trace[n].branch # "none" /\ trace[n].raised = "")
           => Len(trace[n].installed) >= 1

C5_SchedulerLive ==
  /\ [](~SampleRaised)
  /\ [](pc = "ready" => ENABLED Sample)
  /\ \A n \in 1 .. 2 :
       []<>SampleReturned
         => []<>(n \notin DOMAIN agent_state
                   \/ QueueOf(agent_state, n) = <<>>)

C5_Witness ==
  /\ SampleReturned
  /\ Len(trace) = 2
  /\ trace[2].branch = "none"
  /\ QueueOf(agent_state, 2) = <<>>
  /\ QueueOf(agent_state, 1) # <<>>

\* C6: the vocabulary has 90 tokens with indices 0..89, every index decodes
\* to a (direction, attack) pair, distinct indices decode to distinct pairs,
\* the token string of index i encodes to i; this holds of the tables that
\* the constructor builds, and no step of reset() or sample() changes them.
C6_TokenBijection ==
  /\ Len(base_actions) = 90
  /\ action_space_size = 90
  /\ DOMAIN input_lookup = 0 .. 89
  /\ \A i \in 0 .. 89 :
       /\ base_actions[i + 1] \in DOMAIN action_idx_lookup
       /\ action_idx_lookup[base_actions[i + 1]] = i
       /\ Len(input_lookup[i]) = 2
       /\ input_lookup[i][1] \in 0 .. 8
       /\ input_lookup[i][2] \in 0 .. 9
  /\ Cardinality({input_lookup[i] : i \in 0 .. 89}) = 90
  /\ [][UNCHANGED <<base_actions, action_idx_lookup, input_lookup>>]_vars

C6_Witness ==
  /\ SampleReturned
  /\ Len(agent_state) = 1
  /\ result.val.discrete["agent_0"] = 89
  /\ result.val.multi_discrete["agent_0"] = <<8, 9>>

\* C7: reset() raises when any entry of the characters list is not in the
\* roster or any entry of the variants list is outside {1,2,3}; otherwise it
\* returns and there is one agent per list entry, in list order, with the
\* character and variant given and an empty queue.
C7_ResetValidatesAll ==
  ResetEnded =>
    LET bad == \/ \E i \in DOMAIN call.characters :
                    ~HasKey(characters[environment_name],
                            call.characters[i])
               \/ \E i \in DOMAIN call.super_arts :
                    call.super_arts[i] \notin {1, 2, 3}
    IN  IF bad THEN pc = "raised" /\ result.err = "NotImplementedError"
        ELSE /\ pc = "returned"
             /\ Len(agent_state) = Len(call.characters)
             /\ Len(agent_state) = Len(call.super_arts)
             /\ \A n \in DOMAIN agent_state :
                  /\ agent_state[n].k = AgentKey(n)
                  /\ agent_state[n].v.character = call.characters[n]
                  /\ agent_state[n].v.super_art = call.super_arts[n]
                  /\ agent_state[n].v.move_sequence = <<>>

TotalWeight(moves_dict) ==
  LET F[i \in 0 .. Len(moves_dict)] ==
        IF i = 0 THEN 0 ELSE F[i - 1] + moves_dict[i].v.prob
  IN  F[Len(moves_dict)]

\* C9: when the draw is greater than the total weight of the agent's
\* moveset, sample_character_special compiles no descriptor and returns
\* exactly one token of the vocabulary.
C9_SelectorFallback ==
  fn_out.done =>
    LET moves_dict == DictGet(characters[environment_name],
                              fn_in.agent.character)
    IN  fn_in.roll * 1000 > TotalWeight(moves_dict) * RollDen
          => /\ fn_out.val.sel = 0
             /\ fn_out.val.err = ""
             /\ Len(fn_out.val.val) = 1
             /\ \E i \in DOMAIN base_actions :
                  base_actions[i] = fn_out.val.val[1]

C9_Witness ==
  /\ fn_out.done
  /\ fn_in.agent.character = "Half"
  /\ fn_in.roll * 10 >= 9 * RollDen
  /\ fn_out.val.sel = 0
  /\ fn_out.val.val = <<"dl+hpk">>

\* C10: in the combo branch, a sampled sequence of length L >= 1 is
\* installed as a prefix of itself whose length lies in 1..L.
C10_CancelKeepsPrefix ==
  SampleEnded =>
    \A n \in DOMAIN trace :
      (trace[n].branch = "combo" /\ trace[n].raised = ""
         /\ Len(trace[n].sampled) >= 1)
        => /\ IsPrefix(trace[n].installed, trace[n].sampled)
           /\ Len(trace[n].installed) >= 1
           /\ Len(trace[n].installed) <= Len(trace[n].sampled)

C10_Witness ==
  /\ SampleReturned
  /\ Len(trace) >= 1
  /\ trace[1].branch = "combo"
  /\ Len(trace[1].sampled) >= 3
  /\ Len(trace[1].installed) = 1

\* a call of a compiler primitive has returned a token list
Applied(op) == fn_out.done /\ fn_in.op = op

Compiled(op) == Applied(op) /\ fn_out.val.err = ""

\* the strengths a generic attack class stands for
Strengths(attack) ==
  IF attack = "p" THEN {"lp", "mp", "hp"}
  ELSE IF attack = "k" THEN {"lk", "mk", "hk"}
  ELSE {attack}

\* the number of held (non-release) steps of a compiled hold
HeldSteps == Len(fn_out.val.val) - (IF fn_in.release = "" THEN 0 ELSE 1)

\* C11: for a hold descriptor with direction d or lr and every frame skip,
\* the number of held steps emitted lies in [min div fs, max div fs), the
\* upper bound excluded.
C11_HoldRange ==
  (Compiled("hold") /\ fn_in.direction \in {"d", "lr"}) =>
    /\ HeldSteps >= fn_in.min_frame \div frame_skip
    /\ HeldSteps < fn_in.max_frame \div frame_skip

C13_DecodeNonEmptyValid ==
  Applied("decode") =>
    /\ fn_out.val.err = ""
    /\ fn_out.val.val # <<>>
    /\ \A j \in DOMAIN fn_out.val.val :
         fn_out.val.val[j] \in DOMAIN action_idx_lookup

\* C16: a frame range of a hold descriptor or of the movement sampler that
\* is zero-width or inverted after the integer division by the frame skip
\* makes the call that uses it raise; no token list is returned for it.
C16_EmptyRangeFails ==
  /\ (Applied("hold") /\ fn_in.direction \in {"d", "lr"}
        /\ fn_in.min_frame \div frame_skip
             >= fn_in.max_frame \div frame_skip)
       => fn_out.val.err # ""
  /\ (Applied("movement") /\ ~RollLess(fn_in.roll, fn_in.prob_dash)
        /\ fn_in.repeat_min \div frame_skip
             >= fn_in.repeat_max \div frame_skip)
       => fn_out.val.err # ""

\* the directions and the attacks that a list of indices decodes to
DirectionsOf(seq_idx) == [j \in DOMAIN seq_idx |-> input_lookup[seq_idx[j]][1]]

AttacksOf(seq_idx) == [j \in DOMAIN seq_idx |-> input_lookup[seq_idx[j]][2]]

\* d, dr, r / d, dl, l and no attack, no attack, a punch
QcPunch(seq_idx) ==
  /\ Len(seq_idx) = 3
  /\ DirectionsOf(seq_idx) \in {<<7, 6, 5>>, <<7, 8, 1>>}
  /\ \E a \in {1, 2, 3} : AttacksOf(seq_idx) = <<0, 0, a>>

\* agent n took the combo branch in the call that ended
ComboOf(n) ==
  /\ SampleEnded
  /\ n \in DOMAIN trace
  /\ trace[n].branch = "combo"

\* C14 as stated: with one agent whose character's sole move is comb_qc_p
\* with weight 1.0, whenever the combo branch is taken the sequence
\* installed has exactly 3 tokens: d, dr, r or d, dl, l, the first two
\* without attack and the last with lp, mp or hp.
C14_ScenarioThreeTokens ==
  \A n \in DOMAIN agent_state :
    (ComboOf(n) /\ agent_state[n].v.character = "Solo") =>
      /\ trace[n].raised = ""
      /\ QcPunch(trace[n].installed)

\* C14 amended: in that scenario the sequence compiled in the combo branch
\* has exactly 3 tokens of that shape; the sequence installed is the whole
\* of it when the cancel probability is 0 and always a prefix of it of
\* length 1..3; its first token is the one emitted by the call and the rest
\* is left in the queue.
C14_ScenarioPrefix ==
  \A n \in DOMAIN agent_state :
    (ComboOf(n) /\ agent_state[n].v.character = "Solo") =>
      /\ trace[n].raised = ""
      /\ QcPunch(trace[n].sampled)
      /\ IsPrefix(trace[n].installed, trace[n].sampled)
      /\ Len(trace[n].installed) \in 1 .. 3
      /\ call.probs.prob_cancel = 0 => trace[n].installed = trace[n].sampled
      /\ result.val.discrete[agent_state[n].k] = trace[n].installed[1]
      /\ QueueOf(agent_state, n) = Tail(trace[n].installed)

C14_Witness ==
  /\ ComboOf(1)
  /\ agent_state[1].v.character = "Solo"
  /\ call.probs.prob_cancel = 0
  /\ DirectionsOf(trace[1].installed) = <<7, 8, 1>>
  /\ AttacksOf(trace[1].installed) = <<0, 0, 3>>
  /\ Len(QueueOf(agent_state, 1)) = 2

\* the weight accumulated over the first i moves of a moveset
CumWeight(moves_dict, i) ==
  LET F[j \in 0 .. Len(moves_dict)] ==
        IF j = 0 THEN 0 ELSE F[j - 1] + moves_dict[j].v.prob
  IN  F[i]

\* the draw meets the weight accumulated over the first i moves
Meets(roll, moves_dict, i) == roll * 1000 <= CumWeight(moves_dict, i) * RollDen

\* the moveset of the agent handed to sample_character_special
SelectorMoves == DictGet(characters[environment_name], fn_in.agent.character)

\* C17: the move selected is the first one, in the order of the moveset,
\* whose accumulated weight is greater than or equal to the draw (a draw
\* equal to a cumulative boundary selects the move ending there); none is
\* selected only when no accumulated weight meets the draw.
C17_FirstMoveMeeting ==
  fn_out.done =>
    LET sel == fn_out.val.sel
    IN  /\ sel \in 0 .. Len(SelectorMoves)
        /\ sel # 0 => Meets(fn_in.roll, SelectorMoves, sel)
        /\ \A j \in 1 .. Len(SelectorMoves) :
             (sel = 0 \/ j < sel) => ~Meets(fn_in.roll, SelectorMoves, j)

C17_Witness ==
  /\ fn_out.done
  /\ fn_in.agent.character = "Half"
  /\ fn_in.roll * 1000 = SelectorMoves[1].v.prob * RollDen
  /\ fn_out.val.sel = 1

\* the descriptor registered for the move at position sel under a variant
Registered(moves_dict, sel, variant) ==
  IF moves_dict[sel].k # "super_art" THEN moves_dict[sel].v.combo_str
  ELSE CASE variant = 1 -> moves_dict[sel].v.combo_str_1
         [] variant = 2 -> moves_dict[sel].v.combo_str_2
         [] variant = 3 -> moves_dict[sel].v.combo_str_3

\* the result of sample_character_special is a compilation of descriptor d
CompilationOf(d) ==
  [err |-> fn_out.val.err, val |-> fn_out.val.val]
    \in decode_action_string(frame_skip, d)

\* C18: when the selected move is 'super_art' the descriptor compiled is the
\* one registered under the agent's variant; any other move is compiled from
\* its single combo_str, and for a draw that selects such a move the
\* possible results of the call are the same under the three variants.
C18_VariantGating ==
  /\ (fn_out.done /\ fn_out.val.sel # 0) =>
       CompilationOf(Registered(SelectorMoves, fn_out.val.sel,
                                fn_in.agent.super_art))
  /\ ~fn_out.done =>
       LET sel == SelectMove(SelectorMoves, fn_in.roll)
       IN  (sel # 0 /\ SelectorMoves[sel].k # "super_art") =>
             \A v \in {1, 2, 3} :
               special_of(frame_skip, base_actions, SelectorMoves, v,
                          fn_in.roll)
                 = special_of(frame_skip, base_actions, SelectorMoves,
                              fn_in.agent.super_art, fn_in.roll)

C18_Witness ==
  /\ fn_out.done
  /\ fn_out.val.sel # 0
  /\ SelectorMoves[fn_out.val.sel].k = "super_art"
  /\ fn_in.agent.super_art = 2
  /\ ~CompilationOf(SelectorMoves[fn_out.val.sel].v.combo_str_1)
  /\ ~CompilationOf(SelectorMoves[fn_out.val.sel].v.combo_str_3)

\* the direction lists a motion of comb_<motion>_<attack> stands for
Motions(move_string) ==
  LET Mirrors(a, b) == {move_pattern_names[a], move_pattern_names[b]}
  IN
  CASE move_string = "qc"  -> Mirrors("rqc", "lqc")
    [] move_string = "hc"  -> Mirrors("rhc", "lhc")
    [] move_string = "fc"  -> Mirrors("rfc", "lfc")
    [] move_string = "dp"  -> Mirrors("rdp", "ldp")
    [] move_string = "2qc" -> {m \o m : m \in Mirrors("rqc", "lqc")}
    [] move_string = "2fc" -> {m \o m : m \in Mirrors("rfc", "lfc")}
    [] move_string = "2dp" -> {m \o m : m \in Mirrors("rdp", "ldp")}
    [] move_string = "lr"  -> {<<"l">>, <<"r">>}
    [] OTHER -> {<<move_string>>}

\* C19: comb_<motion>_<attack> emits one token per step of the resolved
\* motion; the last token carries the resolved attack and the earlier ones
\* none; the directions are one of the two mirrored patterns in full, and
\* for 2qc/2fc/2dp the same pattern twice.
C19_CombineShape ==
  Applied("combine") =>
    /\ fn_out.val.err = ""
    /\ \E m \in Motions(fn_in.move_string) :
         \E a \in Strengths(fn_in.attack_string) :
           /\ Len(fn_out.val.val) = Len(m)
           /\ \A j \in 1 .. Len(m) :
                fn_out.val.val[j]
                  = Token(m[j], IF j = Len(m) THEN a ELSE "")

C19_Witness ==
  /\ Compiled("combine")
  /\ fn_in.move_string = "2qc"
  /\ fn_in.attack_string = "k"
  /\ fn_out.val.val = <<"d+", "dl+", "l+", "d+", "dl+", "l+mk">>

\* C20: a hold of class d holds one of d/dl/dr, of class lr one of
\* l/dl/dr/r; the n held steps all carry that direction and no attack; with
\* a non-empty release one more step carries the resolved release attack,
\* with direction u for class d and, for class lr, l when the held direction
\* is r or dr and r when it is l or dl; with an empty release nothing is
\* appended and no token carries an attack.
C20_HoldShape ==
  (Compiled("hold") /\ fn_in.direction \in {"d", "lr"}) =>
    LET val  == fn_out.val.val
        n    == HeldSteps
        held == IF fn_in.direction = "d" THEN {"d", "dl", "dr"}
                ELSE {"l", "dl", "dr", "r"}
    IN  /\ n >= 0
        /\ \E h \in held :
             /\ \A j \in 1 .. n : val[j] = Token(h, "")
             /\ IF fn_in.release = "" THEN Len(val) = n
                ELSE /\ Len(val) = n + 1
                     /\ \E a \in Strengths(fn_in.release) :
                          val[n + 1]
                            = Token(IF fn_in.direction = "d" THEN "u"
                                    ELSE IF h \in {"r", "dr"} THEN "l"
                                    ELSE "r", a)

C20_Witness ==
  /\ Compiled("hold")
  /\ fn_in.direction = "lr"
  /\ fn_in.release = "k"
  /\ HeldSteps >= 2
  /\ fn_out.val.val[1] = "dl+"
  /\ fn_out.val.val[Len(fn_out.val.val)] = "r+hk"

\* C15: the agents are registered as agent_0, agent_1, ... in that order;
\* in a sample() call the draws made for an agent registered earlier all
\* precede the draws made for an agent registered later; and from one
\* state, two executions of sample() that consume the same values in the
\* same order end with the same result (value returned or exception
\* raised) and the same agent states: there are as many distinct runs as
\* distinct lists of values consumed.
C15_ReplayDeterministic ==
  LET Values(draws) == [i \in DOMAIN draws |-> draws[i].value]
      Registration(k) ==
        CHOOSE n \in DOMAIN agent_state : agent_state[n].k = k
  IN
  /\ \A n \in DOMAIN agent_state : agent_state[n].k = AgentKey(n)
  /\ (pc # "ready" /\ call.op = "sample") =>
       \A i, j \in DOMAIN call.draws :
         i < j => Registration(call.draws[i].agent)
                    <= Registration(call.draws[j].agent)
  /\ (pc = "ready") =>
       LET runs == {[values |-> Values(o.draws), err |-> o.err,
                     actions |-> o.actions, agent_state |-> o.agent_state] :
                      o \in sampleDrawn(DefaultProbs)}
       IN  Cardinality({r.values : r \in runs}) = Cardinality(runs)

C15_Witness ==
  /\ pc = "returned"
  /\ call.op = "sample"
  /\ Len(agent_state) = 2
  /\ Len(call.draws) >= 5
  /\ call.draws[2].agent = "agent_0"
  /\ call.draws[Len(call.draws) - 1].agent = "agent_1"
  /\ call.draws[1].value = 12

\* the token lists got by compiling the segments of a descriptor one by one
\* and joining the lists in the order of the segments
RECURSIVE InOrder(_, _)
InOrder(fs, action_string) ==
  IF action_string = <<>> THEN {<<>>}
  ELSE LET n     == Len(action_string)
           parts == action_string[n]
           last  == IF parts[1] = "raw" THEN {Tail(parts)}
                    ELSE {o.val : o \in {x \in DecodeSegment(fs, parts) :
                                           x.err = ""}}
       IN  {front \o l : front \in InOrder(fs, SubSeq(action_string, 1, n - 1)),
                         l \in last}

\* C21: the tokens of a descriptor are the tokens of its segments, joined in
\* the order of the segments, a raw segment giving its pieces as they are;
\* Gouki's raw_+lp_+_+lp/comb_lr_/raw_+lk_+_+hp always compiles, to the 7
\* tokens +lp, +, +lp, X, +lk, +, +hp with X one of l+ and r+.
C21_SegmentOrder ==
  Applied("decode") =>
    /\ fn_out.val.err = "" => fn_out.val.val \in InOrder(frame_skip, fn_in.action_string)
    /\ fn_in.action_string = DictGet(Moves_Gouki, "shun_goku_satsu").combo_str =>
         /\ fn_out.val.err = ""
         /\ \E X \in {"l+", "r+"} :
              fn_out.val.val = <<"+lp", "+", "+lp", X, "+lk", "+", "+hp">>

C21_Witness ==
  /\ Compiled("decode")
  /\ fn_in.action_string = DictGet(Moves_Gouki, "shun_goku_satsu").combo_str
  /\ Len(fn_out.val.val) = 7
  /\ fn_out.val.val[4] = "r+"

\* the four category weights of probs, in the order they are compared
CategoryWeight(probs) ==
  <<[k |-> "jump", w |-> probs.prob_jump],
    [k |-> "basic", w |-> probs.prob_basic],
    [k |-> "combo", w |-> probs.prob_combo],
    [k |-> "movement", w |-> probs.prob_movement]>>

\* the dispatch stated for the draw roll/RollDen: category i is the first
\* whose cumulative normalized weight strictly exceeds the draw; the same
\* category is taken when the weights are multiplied by 2, 3 or 10; its
\* weight is not 0; prob_cancel has no influence
Dispatched(roll, probs, category) ==
  LET cw      == CategoryWeight(probs)
      sum     == cw[1].w + cw[2].w + cw[3].w + cw[4].w
      Cum(i)  == IF i = 1 THEN cw[1].w
                 ELSE IF i = 2 THEN cw[1].w + cw[2].w
                 ELSE IF i = 3 THEN cw[1].w + cw[2].w + cw[3].w
                 ELSE sum
      \* Cum(i)/sum > roll/RollDen
      Exceeds(i) == sum > 0 /\ Cum(i) * RollDen > roll * sum
      Scaled(f) == [prob_jump |-> f * probs.prob_jump,
                   prob_basic |-> f * probs.prob_basic,
                   prob_combo |-> f * probs.prob_combo,
                   prob_cancel |-> probs.prob_cancel,
                   prob_movement |-> f * probs.prob_movement]
  IN  /\ \E i \in 1 .. 4 :
           /\ cw[i].k = category
           /\ Exceeds(i)
           /\ \A e \in 1 .. (i - 1) : ~Exceeds(e)
           /\ cw[i].w # 0
      /\ \A f \in {2, 3, 10} : Category(roll, Scaled(f)) = category
      /\ \A x \in {0, 500, 1000} :
           Category(roll, [probs EXCEPT !.prob_cancel = x]) = category

MovementCounts(fs, repeat_min, repeat_max) ==
  {Len(o.val) :
     o \in {x \in sample_movement_action(fs, 0, 0, repeat_min, repeat_max) :
              x.err = ""}}

\* the numbers of held steps the hold primitive allows
HoldCounts(fs, min_f, max_f) ==
  {Len(o.val) : o \in {x \in hold_direction(fs, "d", min_f, max_f, "") :
                         x.err = ""}}

\* C23: a movement is a 3-step dash (l+ or r+, '+', the same again) or one
\* no-attack direction repeated n times, and for the same min, max and frame
\* skip the movement sampler and the hold primitive allow the same step
\* counts n.
C23_MovementAsHold ==
  Applied("movement") =>
    /\ fn_out.val.err = "" =>
         \/ \E m \in {"l+", "r+"} : fn_out.val.val = <<m, "+", m>>
         \/ \E d \in {"l+", "dl+", "d+", "dr+", "r+"} :
              fn_out.val.val = Repeat(d, Len(fn_out.val.val))
    /\ MovementCounts(frame_skip, fn_in.repeat_min, fn_in.repeat_max)
         = HoldCounts(frame_skip, fn_in.repeat_min, fn_in.repeat_max)

\* C24: a call of sample() keeps the agents, their keys, characters and
\* variants; the queue it leaves to an agent comes from that agent's own
\* processing alone (its former queue, or the sequence installed for it,
\* less the index emitted), whatever was done for the other agents; an agent
\* the call did not get to is unchanged; and a step that is not a call of
\* reset() keeps the set of agents.
C24_QueueIsolation ==
  [][/\ SampleStep =>
          /\ Len(agent_state') = Len(agent_state)
          /\ \A n \in DOMAIN agent_state :
               /\ agent_state'[n].k = agent_state[n].k
               /\ agent_state'[n].v.character = agent_state[n].v.character
               /\ agent_state'[n].v.super_art = agent_state[n].v.super_art
               /\ n > Len(trace') => agent_state'[n] = agent_state[n]
               /\ n <= Len(trace') =>
                    LET own == IF trace'[n].branch = "none"
                               THEN QueueOf(agent_state, n)
                               ELSE trace'[n].installed
                    IN  QueueOf(agent_state', n)
                          = IF trace'[n].raised # "" THEN QueueOf(agent_state, n)
                            ELSE IF own = <<>> THEN <<>>
                            ELSE Tail(own)
     /\ ~(pc = "ready" /\ call'.op = "reset") =>
          [n \in DOMAIN agent_state' |-> agent_state'[n].k]
            = [n \in DOMAIN agent_state |-> agent_state[n].k]]_vars

C24_Witness ==
  /\ SampleReturned
  /\ Len(agent_state) = 2
  /\ trace[1].branch = "none"
  /\ trace[2].branch = "combo"
  /\ Len(QueueOf(agent_state, 1)) >= 1
  /\ QueueOf(agent_state, 1) # QueueOf(agent_state, 2)

\* C25: every index held in a queue and every discrete index returned by
\* sample() lies in 0 .. 89, and no call of sample() fails when it decodes
\* the index it emits.
C25_IndexRange ==
  /\ \A n \in DOMAIN agent_state :
       \A j \in DOMAIN QueueOf(agent_state, n) :
         QueueOf(agent_state, n)[j] \in 0 .. 89
  /\ SampleReturned =>
       \A a \in DOMAIN result.val.discrete :
         /\ result.val.discrete[a] \in 0 .. 89
         /\ result.val.discrete[a] \in DOMAIN input_lookup
  /\ (SampleRaised /\ result.err = "KeyError") =>
       trace[Len(trace)].raised = "KeyError"

C25_Witness ==
  /\ SampleReturned
  /\ Len(agent_state) = 2
  /\ agent_state[1].v.character = "Half"
  /\ agent_state[2].v.character = "Odd"
  /\ trace[2].branch = "combo"
  /\ Len(trace[2].installed) = 3
  /\ QueueOf(agent_state, 2)[2] = 89
  /\ trace[1].branch = "basic"

\* C26: with the shipped roster and the default frame skip, every token
\* produced by compiling a roster descriptor (any character, move, variant
\* and random resolution), by the jump sampler or by the movement sampler is
\* a key of action_idx_lookup, so string_to_idx never substitutes a random
\* index for it.
C26_ShippedTokensKnown ==
  LET Known(list) ==
        /\ \A j \in DOMAIN list : list[j] \in DOMAIN action_idx_lookup
        /\ string_to_idx(action_idx_lookup, list)
             = {[j \in DOMAIN list |-> action_idx_lookup[list[j]]]}
  IN  /\ (fn_out.done /\ fn_out.val.err = "") => Known(fn_out.val.val)
      /\ (~fn_out.done /\ fn_in.op = "special" /\ fn_in.roll = 0) =>
           \A sel \in DOMAIN SelectorMoves :
             \A o \in decode_action_string(frame_skip,
                        Registered(SelectorMoves, sel,
                                   fn_in.agent.super_art)) :
               o.err = "" /\ Known(o.val)

C26_Witness ==
  /\ Compiled("special")
  /\ fn_in.agent.character = "Gouki"
  /\ SelectorMoves[fn_out.val.sel].k = "shun_goku_satsu"
  /\ Len(fn_out.val.val) = 7

\* C27: with the weights of the shipped roster taken as exact decimals,
\* every move of every character is selected by at least one draw in
\* [0, 1), except Dudley's super_art: Dudley's weights accumulate to 1.08
\* before it, so no draw selects it and the results for Dudley are the same
\* under the three variants.
C27_MoveReachability ==
  LET moves == SelectorMoves
      \* the draw x (in thousandths) selects the move at position i
      Selects(x, i) ==
        /\ x <= CumWeight(moves, i)
        /\ \A j \in 1 .. (i - 1) : x > CumWeight(moves, j)
      Excepted(i) ==
        fn_in.agent.character = "Dudley" /\ moves[i].k = "super_art"
      x0 == (fn_in.roll * 1000) \div RollDen
  IN  fn_in.op = "special" =>
        /\ (~fn_out.done /\ fn_in.roll = 0) =>
             /\ \A i \in DOMAIN moves :
                  (\E x \in 0 .. 999 : Selects(x, i)) <=> ~Excepted(i)
             /\ fn_in.agent.character = "Dudley" =>
                  /\ moves[Len(moves)].k = "super_art"
                  /\ CumWeight(moves, Len(moves) - 1) = 1080
        /\ (~fn_out.done /\ fn_in.agent.character = "Dudley") =>
             \A v \in {1, 2, 3} :
               special_of(frame_skip, base_actions, moves, v, fn_in.roll)
                 = special_of(frame_skip, base_actions, moves,
                              fn_in.agent.super_art, fn_in.roll)
        /\ (fn_out.done /\ fn_out.val.sel # 0) =>
             /\ ~Excepted(fn_out.val.sel)
             /\ x0 * RollDen = fn_in.roll * 1000 =>
                  Selects(x0, fn_out.val.sel)

C27_Witness ==
  /\ Compiled("special")
  /\ fn_in.agent.character = "Dudley"
  /\ fn_in.agent.super_art = 2
  /\ fn_in.roll = RollDen - 1
  /\ SelectorMoves[fn_out.val.sel].k = "jet_upper"

\* C28: when reset() raises because the entry at position k (counted from
\* 0) is invalid, the agent state after the call holds exactly the agents
\* 0 .. k-1 of the new lists, each with an empty queue, whatever agents and
\* pending queues there were before the call.
C28_FailedResetPartial ==
  [][(pc = "ready" /\ pc' = "raised" /\ call'.op = "reset") =>
       LET chars == call'.characters
           arts  == call'.super_arts
           Invalid(n) == \/ ~HasKey(characters[environment_name], chars[n])
                         \/ arts[n] \notin {1, 2, 3}
           paired == {n \in DOMAIN chars : n \in DOMAIN arts}
       IN  /\ \E n \in paired : Invalid(n)
           /\ LET k == CHOOSE n \in paired :
                         Invalid(n) /\ \A j \in 1 .. (n - 1) : ~Invalid(j)
              IN  /\ Len(agent_state') = k - 1
                  /\ \A n \in 1 .. (k - 1) :
                       agent_state'[n] =
                         [k |-> AgentKey(n),
                          v |-> [move_sequence |-> <<>>,
                                 character |-> chars[n],
                                 super_art |-> arts[n]]]
                  /\ (\E n \in DOMAIN agent_state :
                        QueueOf(agent_state, n) # <<>>)
                       => agent_state' # agent_state]_vars

C28_Witness ==
  /\ pc = "raised"
  /\ call.op = "reset"
  /\ call.characters = <<"Ken", "Ryu">>
  /\ call.super_arts = <<1, 4>>
  /\ Len(agent_state) = 1
  /\ agent_state[1].v.character = "Ken"
  /\ QueueOf(agent_state, 1) = <<>>

C29_FailedSamplePartial ==
  [][(SampleStep /\ pc' = "raised") =>
       LET k == Len(trace')
       IN  /\ k \in DOMAIN agent_state
           /\ DOMAIN agent_state' = DOMAIN agent_state
           /\ result'.val = <<>>
           /\ \A n \in 1 .. (k - 1) :
                LET own == IF trace'[n].branch = "none"
                           THEN QueueOf(agent_state, n)
                           ELSE trace'[n].installed
                IN  /\ trace'[n].raised = ""
                    /\ own # <<>>
                    /\ QueueOf(agent_state', n) = Tail(own)
           /\ QueueOf(agent_state, k) = <<>>
           /\ QueueOf(agent_state', k) = <<>>
           /\ \A n \in (k + 1) .. Len(agent_state) :
                agent_state'[n] = agent_state[n]]_vars

C29_Witness ==
  /\ SampleRaised
  /\ Len(agent_state) = 2
  /\ Len(trace) = 2
  /\ trace[1].branch = "combo"
  /\ Len(trace[1].installed) >= 2
  /\ QueueOf(agent_state, 1) = Tail(trace[1].installed)
  /\ trace[2].branch = "movement"
  /\ QueueOf(agent_state, 2) = <<>>
====
